---- MODULE Spec2Model ----
(***************************************************************************)
(* Seamless ads: the rule-based targeting / selection / ranking pipeline   *)
(* of src/seamless_ads (recommender.py, kroger_search.py, service.py), its *)
(* schemas (schemas.py), persona registry (user_profiles.py) and command   *)
(* line entry point (cli.py); the shopping tools of src/dedalus_mcp_server *)
(* (product_search.py, cart_management.py), the product discovery tool     *)
(* (src/tools/discover_product.py) and the discovery server (server.py).   *)
(*                                                                         *)
(* Strings that the code lower-cases or searches for substrings are        *)
(* sequences of one-character strings, so that str.lower() and the `in`    *)
(* substring test are computed.  Strings the code only passes around or    *)
(* compares whole (product keys, rationale lines, categories, queries)     *)
(* are TLA+ strings.  Affinities and confidences are in hundredths, prices *)
(* in cents; the amounts of the shopping tools, which the code rounds to   *)
(* the cent, are in thousandths of a dollar.                               *)
(***************************************************************************)
EXTENDS Integers, Sequences, FiniteSets, TLC

VARIABLES
    user,          \* UserProfile of the request
    scene,         \* VideoMetadata of the request
    tc_in,         \* AdAttributes handed to a direct _select_product call
    op,            \* the recommender operation that ran last ("init" before it)
    targeting,     \* AdAttributes returned (NoTargeting when none was returned)
    product_key,   \* product key returned ("" when none was returned)
    rationale,     \* rationale list returned
    rank_pc,       \* a direct _rank_results call: "idle", "called" or "returned"
    rank_in,       \* its arguments: results, price_sensitivity, brand_bias
    rank_out,      \* the list it returned
    tool_client,   \* the ToolClient of the call: "mock" (MockKrogerToolClient),
                   \* "catalog" (any other client) or "none"
    fk_pc,         \* find_kroger_products: "idle", "primary", "fallback", "done", "raised"
    fk_query,      \* its local `query`
    fk_idx,        \* index into fallback_queries of the next fallback search
    fk_calls,      \* the search_products calls issued so far, in order
    fk_returns,    \* what each of them gave: the number of results, -1 when it raised
    fk_raw,        \* its local `results` when the searches are over
    fk_ranked,     \* its local `ranked`
    fk_out,        \* the list of ProductResult it returned
    svc_pc,        \* generate_ad_response / _select_overlay: where the call is
    overlay,       \* the OverlaySpec _select_overlay returned
    response,      \* <<>>, or <<r>> with r the SeamlessAdResponse returned
    main_pc,       \* cli.main: where the run is
    raw_user,      \* the parsed user JSON handed to UserProfile(**...)
    raw_scene,     \* the parsed scene JSON handed to VideoMetadata(**...)
    USER_PERSONAS, \* the persona registry: key -> reference of a UserProfile
    heap,          \* the objects of the persona module and its callers, by reference
    held,          \* the references get_user_profile returned to callers, in order
    gp_key,        \* the user_key of the last get_user_profile call
    gp_result,     \* its outcome: "none", "raised" or "returned"
    _cart,         \* cart_management._cart: id, items, total, item_count
    _product_cache, \* product_search._product_cache: product id -> product
    uuids,         \* how many uuid4 values have been drawn for cart ids
    cart_call,     \* the last shopping-tool call: its name and arguments
    cart_ret,      \* the dict (or list) it returned
    cart_log,      \* the successful add_to_cart calls since the cart was last reset
    orders,        \* the cart ids of the checkouts that completed
    disc_call,     \* the last discover_product call: arguments and environment
    disc_ret,      \* the list it returned
    _active_runs,  \* server._active_runs: content ids with a discovery run
    bg_scheduled,  \* content id -> background tasks added and not yet started
    bg_running,    \* content id -> background tasks inside run_discovery
    bg_last,       \* the background task that ended last, and how it ended
    http_ret,      \* the body of the last POST /api/discover response
    posts          \* how many POST /api/discover requests were handled

rec_vars == <<user, scene, tc_in, op, targeting, product_key, rationale>>

rank_vars == <<rank_pc, rank_in, rank_out>>

fk_vars == <<tool_client, fk_pc, fk_query, fk_idx, fk_calls, fk_returns, fk_raw, fk_ranked, fk_out>>

svc_vars == <<svc_pc, overlay, response>>

main_vars == <<main_pc, raw_user, raw_scene>>

persona_vars == <<USER_PERSONAS, heap, held, gp_key, gp_result>>

cart_vars == <<_cart, _product_cache, uuids, cart_call, cart_ret, cart_log, orders>>

disc_vars == <<disc_call, disc_ret>>

srv_vars == <<_active_runs, bg_scheduled, bg_running, bg_last, http_ret, posts>>

tool_vars == <<cart_vars, disc_vars, srv_vars>>

vars == <<rec_vars, rank_vars, fk_vars, svc_vars, main_vars, persona_vars, tool_vars>>

\* ------------------------------------------------------------------ bounds
MaxTags == 2
MaxTerms == 1
MaxPrefs == 2
MaxRanked == 3
MaxResults == 4
MaxObjects == 3
MaxKeyLen == 3
MaxHeld == 2
MaxRawObjects == 1

\* ------------------------------------------------------- string primitives
UpperAlpha == <<"A","B","C","D","E","F","G","H","I","J","K","L","M","N","O","P","Q","R","S","T","U","V","W","X","Y","Z">>
LowerAlpha == <<"a","b","c","d","e","f","g","h","i","j","k","l","m","n","o","p","q","r","s","t","u","v","w","x","y","z">>

\* the lower-case letter of every upper-case letter
UpperToLower ==
    [c \in {UpperAlpha[i] : i \in DOMAIN UpperAlpha} |->
        LowerAlpha[CHOOSE i \in DOMAIN UpperAlpha : UpperAlpha[i] = c]]

LowerChar(c) == IF c \in DOMAIN UpperToLower THEN UpperToLower[c] ELSE c

\* the upper-case letter of every lower-case letter
LowerToUpper ==
    [c \in {LowerAlpha[i] : i \in DOMAIN LowerAlpha} |->
        UpperAlpha[CHOOSE i \in DOMAIN LowerAlpha : LowerAlpha[i] = c]]

UpperChar(c) == IF c \in DOMAIN LowerToUpper THEN LowerToUpper[c] ELSE c

IsLetter(c) == c \in DOMAIN LowerToUpper \/ c \in DOMAIN UpperToLower

\* str.upper()
Upper(s) == [i \in DOMAIN s |-> UpperChar(s[i])]

Whitespace == {" ", "\t", "\n"}

\* str.strip(): the leading and the trailing whitespace removed
strip(s) ==
    LET kept == {i \in DOMAIN s : s[i] \notin Whitespace}
    IN  IF kept = {} THEN <<>>
        ELSE SubSeq(s, CHOOSE i \in kept : \A j \in kept : i <= j,
                       CHOOSE i \in kept : \A j \in kept : j <= i)

\* str.lower()
Lower(s) == [i \in 1..Len(s) |-> LowerChar(s[i])]

\* {x.lower() for x in xs}
LowerAll(xs) == {Lower(x) : x \in xs}

\* `sub in s` on two strings
IsSubstring(sub, s) ==
    \E k \in 0..(Len(s) - Len(sub)) : SubSeq(s, k + 1, k + Len(sub)) = sub

\* dict.get(k, default)
Get(d, k, default) == IF k \in DOMAIN d THEN d[k] ELSE default

SubsetsUpTo(S, n) == {T \in SUBSET S : Cardinality(T) <= n}

SeqsUpTo(S, n) == UNION {[1..k -> S] : k \in 0..n}

\* --------------------------------------------- string literals of the code
w_pizza == <<"p","i","z","z","a">>
w_beverage == <<"b","e","v","e","r","a","g","e">>
w_soda == <<"s","o","d","a">>
w_cola == <<"c","o","l","a">>
w_dinner == <<"d","i","n","n","e","r">>
w_late_night == <<"l","a","t","e","_","n","i","g","h","t">>
w_sleepover == <<"s","l","e","e","p","o","v","e","r">>
w_game_night == <<"g","a","m","e","_","n","i","g","h","t">>
w_drink == <<"d","r","i","n","k">>
w_slice == <<"s","l","i","c","e">>
w_cheesy == <<"c","h","e","e","s","y">>
w_coke == <<"c","o","k","e">>
w_can == <<"c","a","n">>
w_laptop == <<"l","a","p","t","o","p">>
w_computer == <<"c","o","m","p","u","t","e","r">>
w_device == <<"d","e","v","i","c","e">>
w_work == <<"w","o","r","k">>
w_surveillance == <<"s","u","r","v","e","i","l","l","a","n","c","e">>
w_lab == <<"l","a","b">>
w_investigation == <<"i","n","v","e","s","t","i","g","a","t","i","o","n">>
w_kids == <<"k","i","d","s">>
w_friends == <<"f","r","i","e","n","d","s">>
w_dungeons_amp_dragons == <<"d","u","n","g","e","o","n","s"," ","&"," ","d","r","a","g","o","n","s">>
w_dungeons_and_dragons == <<"d","u","n","g","e","o","n","s","_","a","n","d","_","d","r","a","g","o","n","s">>
w_arcade == <<"a","r","c","a","d","e">>
w_suburb == <<"s","u","b","u","r","b">>
w_small_town == <<"s","m","a","l","l","_","t","o","w","n">>
w_night == <<"n","i","g","h","t">>
w_low_sugar == <<"l","o","w","_","s","u","g","a","r">>
w_low_fat == <<"l","o","w","_","f","a","t">>
w_healthy == <<"h","e","a","l","t","h","y">>
w_indulgent == <<"i","n","d","u","l","g","e","n","t">>
w_comfort_food == <<"c","o","m","f","o","r","t","_","f","o","o","d">>
w_vegetarian == <<"v","e","g","e","t","a","r","i","a","n">>
w_no_beef == <<"n","o","_","b","e","e","f">>
w_no_pork == <<"n","o","_","p","o","r","k">>
w_Coca_Cola == <<"C","o","c","a","-","C","o","l","a">>

\* ----------------------------------------- strings that occur only in inputs
w_Diet_Coke == <<"D","i","e","t"," ","C","o","k","e">>
w_Pepsi == <<"P","e","p","s","i">>
w_COKE == <<"C","O","K","E">>
w_Fanta == <<"F","a","n","t","a">>
w_No_Beef == <<"N","o","_","B","e","e","f">>
w_Soda == <<"S","o","d","a">>
w_Laptop == <<"L","a","p","t","o","p">>
w_Pizza == <<"P","i","z","z","a">>
w_Beverage == <<"B","e","v","e","r","a","g","e">>
w_Comfort_Food == <<"C","o","m","f","o","r","t","_","F","o","o","d">>
w_Healthy == <<"H","e","a","l","t","h","y">>
w_weekend == <<"w","e","e","k","e","n","d">>
w_weekday_late_night == <<"w","e","e","k","d","a","y","_","l","a","t","e","_","n","i","g","h","t">>
w_Stranger_Things == <<"S","t","r","a","n","g","e","r"," ","T","h","i","n","g","s">>
w_tech == <<"t","e","c","h">>
w_balanced == <<"b","a","l","a","n","c","e","d">>

\* ------------------------------------------------------- program constants
\* coke_affinity >= 0.6, in hundredths
CokeAffinityThreshold == 60

\* ------------------------------------------------------------ recommender
\* AdRecommender._episode_terms; scene.episode is <<>> for None, <<e>> otherwise
_episode_terms(sc) ==
    IF sc.episode = <<>> THEN {}
    ELSE LET episode == sc.episode[1] IN
         LowerAll(episode.genres) \cup LowerAll(episode.tone_tags)
            \cup LowerAll(episode.setting_tags) \cup LowerAll(episode.keywords)
            \cup {Lower(episode.show_title), Lower(episode.episode_title)}

\* AdRecommender._prominent_products
_prominent_products(sc) ==
    IF sc.episode = <<>> THEN {}
    ELSE UNION {{Lower(product.category)} \cup LowerAll(product.labels)
                    \cup LowerAll(product.brands) :
                product \in sc.episode[1].prominent_products}

\* price_sensitivity with the two checks in the other order
price_sensitivity_deals_last(u) ==
    LET s1 == IF Get(u.engagement_signals, "prefers_premium", FALSE) THEN "high" ELSE "med"
    IN  IF Get(u.engagement_signals, "often_uses_deals", FALSE) THEN "low" ELSE s1

\* price_sensitivity of _build_targeting_context: two ifs, the later overwrites
price_sensitivity_of(u) ==
    LET s1 == IF Get(u.engagement_signals, "often_uses_deals", FALSE) THEN "low" ELSE "med"
    IN  IF Get(u.engagement_signals, "prefers_premium", FALSE) THEN "high" ELSE s1

\* health_tilt of _build_targeting_context
health_tilt_of(u) ==
    LET prefs == LowerAll(u.dietary_preferences)
        h1 == IF w_low_sugar \in prefs \/ w_low_fat \in prefs \/ w_healthy \in prefs
              THEN "healthy" ELSE "balanced"
    IN  IF w_indulgent \in prefs \/ w_comfort_food \in prefs THEN "indulgent" ELSE h1

\* delivery_preference of _build_targeting_context
delivery_preference_of(u) ==
    LET d1 == IF Get(u.engagement_signals, "prefers_delivery", FALSE) THEN "delivery" ELSE "any"
    IN  IF Get(u.engagement_signals, "prefers_pickup", FALSE) THEN "pickup" ELSE d1

\* target_category with the frozen scene check after the beverage scene check
target_category_frozen_last(sc) ==
    LET episode_terms == _episode_terms(sc)
        prominent_products == _prominent_products(sc)
        c1 == IF w_pizza \in prominent_products THEN "frozen" ELSE "snacks"
        c2 == IF w_beverage \in prominent_products \/ w_soda \in prominent_products
                 \/ w_cola \in prominent_products
              THEN "beverage" ELSE c1
        c3 == IF (\E tag \in {w_beverage, w_soda, w_cola, w_drink} : tag \in sc.scene_tags)
                 \/ ({w_beverage, w_soda, w_cola} \cap episode_terms) # {}
              THEN "beverage" ELSE c2
        c4 == IF (\E tag \in {w_pizza, w_dinner, w_late_night} : tag \in sc.scene_tags)
                 \/ ({w_late_night, w_sleepover, w_game_night} \cap episode_terms) # {}
              THEN "frozen" ELSE c3
    IN  c4

\* target_category of _build_targeting_context: four ifs in source order, each
\* overwriting the value left by the ones before it.  scene.scene_tags is read
\* as given (not lower-cased); episode terms and prominent products are lower-cased.
target_category_of(sc) ==
    LET episode_terms == _episode_terms(sc)
        prominent_products == _prominent_products(sc)
        c0 == "snacks"
        c1 == IF w_pizza \in prominent_products THEN "frozen" ELSE c0
        c2 == IF w_beverage \in prominent_products \/ w_soda \in prominent_products
                 \/ w_cola \in prominent_products
              THEN "beverage" ELSE c1
        c3 == IF (\E tag \in {w_pizza, w_dinner, w_late_night} : tag \in sc.scene_tags)
                 \/ ({w_late_night, w_sleepover, w_game_night} \cap episode_terms) # {}
              THEN "frozen" ELSE c2
        c4 == IF (\E tag \in {w_beverage, w_soda, w_cola, w_drink} : tag \in sc.scene_tags)
                 \/ ({w_beverage, w_soda, w_cola} \cap episode_terms) # {}
              THEN "beverage" ELSE c3
    IN  c4

\* AdRecommender._build_targeting_context
_build_targeting_context(u, sc) ==
    [target_category     |-> target_category_of(sc),
     price_sensitivity   |-> price_sensitivity_of(u),
     health_tilt         |-> health_tilt_of(u),
     delivery_preference |-> delivery_preference_of(u)]

\* all_terms of _select_product: labels | tags | dialogue | episode_terms
all_terms_of(sc) ==
    {Lower(sc.detected_objects[i].label) : i \in DOMAIN sc.detected_objects}
        \cup LowerAll(sc.scene_tags) \cup LowerAll(sc.dialogue_keywords)
        \cup _episode_terms(sc)

pizza_signal_set == {w_pizza, w_slice, w_cheesy}
\* the beverage cues without "drink", a tag the targeting context reads as beverage
beverage_signal_set_no_drink == {w_soda, w_cola, w_coke, w_beverage, w_can}
beverage_signal_set == {w_soda, w_cola, w_coke, w_beverage, w_drink, w_can}
tech_signal_set == {w_laptop, w_computer, w_device, w_work, w_surveillance, w_lab, w_investigation}
hangout_signal_set ==
    {w_kids, w_friends, w_sleepover, w_game_night, w_dungeons_amp_dragons,
     w_dungeons_and_dragons, w_arcade, w_suburb, w_small_town}

\* coke_affinity = user.brand_affinities.get("Coca-Cola", 0.0)
coke_affinity_of(u) == Get(u.brand_affinities, w_Coca_Cola, 0)

\* _select_product, lines 147-158: the brand-affinity rule and the fallback on
\* target_category, here without the frozen branch
select_by_affinity_or_default_no_frozen(u, sc, t) ==
    LET all_terms == all_terms_of(sc)
    IN  IF coke_affinity_of(u) >= CokeAffinityThreshold
           /\ (t.target_category = "beverage"
               \/ ({w_beverage, w_soda, w_cola} \cap all_terms) # {}) THEN
            [key |-> "coke",
             rationale |-> <<"No strong visual cues; fell back to top brand affinity (Coca-Cola)">>]
        ELSE IF t.target_category = "beverage" THEN
            [key |-> "coke",
             rationale |-> <<"Defaulted to universal placement",
                             "Targeting favors beverage category">>]
        ELSE
            [key |-> "laptop", rationale |-> <<"Defaulted to universal placement">>]

\* _select_product, lines 147-158: the brand-affinity return and the fallback
\* returns on target_category
select_by_affinity_or_default(u, sc, t) ==
    LET all_terms == all_terms_of(sc)
        coke_affinity == coke_affinity_of(u)
    IN  IF coke_affinity >= CokeAffinityThreshold
           /\ (t.target_category = "beverage"
               \/ ({w_beverage, w_soda, w_cola} \cap all_terms) # {}) THEN
            [key |-> "coke",
             rationale |-> <<"No strong visual cues; fell back to top brand affinity (Coca-Cola)">>]
        ELSE IF t.target_category = "beverage" THEN
            [key |-> "coke",
             rationale |-> <<"Defaulted to universal placement",
                             "Targeting favors beverage category">>]
        ELSE IF t.target_category = "frozen" THEN
            [key |-> "pizza",
             rationale |-> <<"Defaulted to universal placement",
                             "Targeting favors frozen category">>]
        ELSE
            [key |-> "laptop", rationale |-> <<"Defaulted to universal placement">>]

\* the rationale lines of the pizza-cue and beverage-cue returns
pizza_cue_rationale(u, all_terms) ==
    <<"Scene contains food/hangout cues aligned with pizza">>
        \o (IF IsSubstring(w_late_night, u.watch_time_context)
               \/ w_late_night \in all_terms \/ w_night \in all_terms
            THEN <<"Night context favors warm comfort food">> ELSE <<>>)

beverage_cue_rationale(u) ==
    <<"Scene contains beverage cues">>
        \o (IF coke_affinity_of(u) >= CokeAffinityThreshold
            THEN <<"High Coca-Cola brand affinity">> ELSE <<>>)

\* _select_product, lines 127-145, with the beverage cues tested before the
\* tech and hangout cues
select_by_scene_cues_beverage_early(u, sc, t) ==
    LET all_terms == all_terms_of(sc)
    IN  IF (pizza_signal_set \cap all_terms) # {} THEN
            [key |-> "pizza", rationale |-> pizza_cue_rationale(u, all_terms)]
        ELSE IF (beverage_signal_set \cap all_terms) # {} THEN
            [key |-> "coke", rationale |-> beverage_cue_rationale(u)]
        ELSE IF (tech_signal_set \cap all_terms) # {} THEN
            [key |-> "laptop",
             rationale |-> <<"Episode/scene suggests tech/work context">>]
        ELSE IF (hangout_signal_set \cap all_terms) # {} THEN
            [key |-> "pizza",
             rationale |-> <<"Episode/scene suggests a group hangout vibe (pizza-friendly)">>]
        ELSE select_by_affinity_or_default(u, sc, t)

\* _select_product, lines 127-145: the scene-cue returns, in source order
select_by_scene_cues(u, sc, t) ==
    LET all_terms == all_terms_of(sc)
        pizza_signals == pizza_signal_set \cap all_terms
        beverage_signals == beverage_signal_set \cap all_terms
        tech_signals == tech_signal_set \cap all_terms
        hangout_signals == hangout_signal_set \cap all_terms
    IN  IF pizza_signals # {} THEN
            [key |-> "pizza", rationale |-> pizza_cue_rationale(u, all_terms)]
        ELSE IF tech_signals # {} THEN
            [key |-> "laptop",
             rationale |-> <<"Episode/scene suggests tech/work context">>]
        ELSE IF hangout_signals # {} THEN
            [key |-> "pizza",
             rationale |-> <<"Episode/scene suggests a group hangout vibe (pizza-friendly)">>]
        ELSE IF beverage_signals # {} THEN
            [key |-> "coke", rationale |-> beverage_cue_rationale(u)]
        ELSE select_by_affinity_or_default(u, sc, t)

\* the rationale lines of the prominent-beverage return
prominent_beverage_rationale(u) ==
    <<"Episode metadata shows prominent beverage presence">>
        \o (IF coke_affinity_of(u) >= CokeAffinityThreshold
            THEN <<"User affinity tilts toward Coca-Cola">> ELSE <<>>)

\* _select_product with the prominent-beverage return before the prominent-pizza one
_select_product_beverage_first(u, sc, t) ==
    LET prominent_products == _prominent_products(sc)
    IN  IF ({w_beverage, w_soda, w_cola} \cap prominent_products) # {} THEN
            [key |-> "coke", rationale |-> prominent_beverage_rationale(u)]
        ELSE IF w_pizza \in prominent_products THEN
            [key |-> "pizza",
             rationale |-> <<"Episode metadata shows prominent pizza presence">>]
        ELSE select_by_scene_cues(u, sc, t)

\* AdRecommender._select_product: the cascade of early returns (the
\* episode-prominence returns here, the later ones in select_by_scene_cues and
\* select_by_affinity_or_default)
_select_product(u, sc, t) ==
    LET prominent_products == _prominent_products(sc)
    IN  IF w_pizza \in prominent_products THEN
            [key |-> "pizza",
             rationale |-> <<"Episode metadata shows prominent pizza presence">>]
        ELSE IF ({w_beverage, w_soda, w_cola} \cap prominent_products) # {} THEN
            [key |-> "coke", rationale |-> prominent_beverage_rationale(u)]
        ELSE select_by_scene_cues(u, sc, t)

\* AdRecommender.recommend
recommend(u, sc) ==
    LET t == _build_targeting_context(u, sc)
        sel == _select_product(u, sc, t)
    IN  [product_key |-> sel.key, rationale |-> sel.rationale, targeting |-> t]

\* ----------------------------------------------------------------- ranker
\* float(result.get("price", 999.0)), in cents
DefaultRankPrice == 99900

\* brand_hit of score: 1 if any(brand.lower() in name for brand in brand_bias)
brand_hit(result, brand_bias) ==
    LET name == Lower(Get(result, "name", <<>>))
    IN  IF \E i \in DOMAIN brand_bias : IsSubstring(Lower(brand_bias[i]), name)
        THEN 1 ELSE 0

\* score with the brand hit counted against the candidate
score_brand_last(result, price_sensitivity, brand_bias) ==
    LET not_in_stock == IF Get(result, "in_stock", TRUE) THEN 0 ELSE 1
        price == Get(result, "price", DefaultRankPrice)
    IN  IF price_sensitivity = "high"
        THEN <<not_in_stock, brand_hit(result, brand_bias), -price>>
        ELSE <<not_in_stock, brand_hit(result, brand_bias), price>>

\* score without the "high" branch
score_always_ascending(result, price_sensitivity, brand_bias) ==
    LET not_in_stock == IF Get(result, "in_stock", TRUE) THEN 0 ELSE 1
        price == Get(result, "price", DefaultRankPrice)
    IN  <<not_in_stock, -brand_hit(result, brand_bias), price>>

\* score of _rank_results: (not in_stock, -brand_hit, -price or price);
\* the bool compares as 0 / 1
score(result, price_sensitivity, brand_bias) ==
    LET not_in_stock == IF Get(result, "in_stock", TRUE) THEN 0 ELSE 1
        price == Get(result, "price", DefaultRankPrice)
    IN  IF price_sensitivity = "high"
        THEN <<not_in_stock, -brand_hit(result, brand_bias), -price>>
        ELSE <<not_in_stock, -brand_hit(result, brand_bias), price>>

\* a < b on two key tuples of equal length, as Python compares tuples
tuple_less(a, b) ==
    \E i \in DOMAIN a :
        /\ a[i] < b[i]
        /\ \A j \in 1..(i - 1) : a[j] = b[j]

\* one step of an unstable sort: index x goes before the indices whose key
\* equals its own
insert_before_equal(order, x, keys) ==
    LET n == Cardinality({k \in DOMAIN order : tuple_less(keys[order[k]], keys[x])})
    IN  SubSeq(order, 1, n) \o <<x>> \o SubSeq(order, n + 1, Len(order))

\* one step of sorted(): index x, the next in input order, goes after every
\* index whose key is not greater than its own (the sort is stable)
insert_sorted(order, x, keys) ==
    LET n == Cardinality({k \in DOMAIN order : ~tuple_less(keys[x], keys[order[k]])})
    IN  SubSeq(order, 1, n) \o <<x>> \o SubSeq(order, n + 1, Len(order))

\* the indices 1..n of the input in sorted order
RECURSIVE sorted_indices(_, _)
sorted_indices(n, keys) ==
    IF n = 0 THEN <<>> ELSE insert_sorted(sorted_indices(n - 1, keys), n, keys)

\* sorted(results, key=score): score is computed once for every element
sorted_by_score(results, price_sensitivity, brand_bias) ==
    LET keys == [i \in DOMAIN results |-> score(results[i], price_sensitivity, brand_bias)]
        order == sorted_indices(Len(results), keys)
    IN  [k \in DOMAIN order |-> results[order[k]]]

\* _rank_results
_rank_results(results, price_sensitivity, brand_bias) ==
    sorted_by_score(results, price_sensitivity, brand_bias)

\* --------------------------------------------------- find_kroger_products
\* _price_filter, in cents
_price_filter(price_sensitivity) ==
    IF price_sensitivity = "low" THEN 800
    ELSE IF price_sensitivity = "high" THEN 2000
    ELSE 1200

\* the affinity boundary left out and only the exact preference spelling matched
_build_query_strict(key, u) ==
    LET prefs == u.dietary_preferences
    IN  IF key = "pizza" THEN
            IF w_vegetarian \in prefs \/ w_no_beef \in prefs \/ w_no_pork \in prefs
            THEN "vegetarian frozen pizza" ELSE "frozen pizza"
        ELSE IF key = "coke" THEN
            IF Get(u.brand_affinities, w_Coca_Cola, 0) > CokeAffinityThreshold
            THEN "Coca-Cola" ELSE "cola soda"
        ELSE IF key = "laptop" THEN "laptop computer"
        ELSE key

\* _build_query
_build_query(key, u) ==
    LET prefs == LowerAll(u.dietary_preferences)
    IN  IF key = "pizza" THEN
            IF w_vegetarian \in prefs \/ w_no_beef \in prefs \/ w_no_pork \in prefs
            THEN "vegetarian frozen pizza" ELSE "frozen pizza"
        ELSE IF key = "coke" THEN
            IF Get(u.brand_affinities, w_Coca_Cola, 0) >= CokeAffinityThreshold
            THEN "Coca-Cola" ELSE "cola soda"
        ELSE IF key = "laptop" THEN "laptop computer"
        ELSE key

\* the raw product key tried before the built query
fallback_queries_key_first(query, key) ==
    <<key, query, "pizza", "Coca-Cola", "cola soda", "laptop computer">>

\* one more generic term at the end of the list
fallback_queries_longer(query, key) ==
    <<query, key, "pizza", "Coca-Cola", "cola soda", "laptop computer", "groceries">>

\* fallback_queries
fallback_queries(query, key) ==
    <<query, key, "pizza", "Coca-Cola", "cola soda", "laptop computer">>

\* the elements of a set as a list, in some order
RECURSIVE ListOf(_)
ListOf(S) ==
    IF S = {} THEN <<>>
    ELSE LET x == CHOOSE x \in S : TRUE IN <<x>> \o ListOf(S \ {x})

\* brand_bias: v >= 0.5, in hundredths
BrandBiasThreshold == 50

\* brand_bias = [k for k, v in user_profile.brand_affinities.items() if v >= 0.5];
\* the list's order is the dict's, which _rank_results does not depend on
brand_bias_of(u) ==
    ListOf({k \in DOMAIN u.brand_affinities :
               u.brand_affinities[k] >= BrandBiasThreshold})

\* ranked[:3]
TopCount == 3

GenericImageUrl == "https://images.kroger.com/product/generic-item.jpg"

\* the slice taken one place too far down the ranking
top_ranked_from_second(ranked) ==
    SubSeq(ranked, 2, IF Len(ranked) < TopCount + 1 THEN Len(ranked) ELSE TopCount + 1)

top_ranked(ranked) ==
    SubSeq(ranked, 1, IF Len(ranked) < TopCount THEN Len(ranked) ELSE TopCount)

\* Python's None where a str is expected: what dict.get answers for a missing
\* key and what a JSON null decodes to; no str of the model equals it
None == "None"

\* the candidate's image_url passed through as the catalog sent it
product_result_raw_image(product, query) ==
    [product_id |-> Get(product, "id", ""),
     name |-> Get(product, "name", <<>>),
     price |-> Get(product, "price", 0),
     size |-> Get(product, "size", "each"),
     unit |-> Get(product, "unit", "each"),
     in_stock |-> Get(product, "in_stock", TRUE),
     image_url |-> Get(product, "image_url", None),
     kroger_search_query |-> query]

\* every ProductResult tagged with the query of the primary search
product_result_primary_query(product, query) ==
    [product_id |-> Get(product, "id", ""),
     name |-> Get(product, "name", <<>>),
     price |-> Get(product, "price", 0),
     size |-> Get(product, "size", "each"),
     unit |-> Get(product, "unit", "each"),
     in_stock |-> Get(product, "in_stock", TRUE),
     image_url |-> IF Get(product, "image_url", None) \in {None, ""}
                   THEN GenericImageUrl ELSE product.image_url,
     kroger_search_query |-> fk_query]

\* the ProductResult built from one ranked candidate
product_result(product, query) ==
    [product_id |-> Get(product, "id", ""),
     name |-> Get(product, "name", <<>>),
     price |-> Get(product, "price", 0),
     size |-> Get(product, "size", "each"),
     unit |-> Get(product, "unit", "each"),
     in_stock |-> Get(product, "in_stock", TRUE),
     image_url |-> IF Get(product, "image_url", None) \in {None, ""}
                   THEN GenericImageUrl ELSE product.image_url,
     kroger_search_query |-> query]

\* the search_products call made with `query` and `filters`
search_call(query, max_price, limit, u) ==
    [query |-> query, max_price |-> max_price, limit |-> limit, zip |-> u.location_zip]

\* --------------------------------------------------------------- service.py
w_unknown == <<"u","n","k","n","o","w","n">>

\* label_map.get(product_key, set())
label_map(key) ==
    CASE key = "pizza" -> {w_pizza}
      [] key = "coke" -> {w_soda, w_cola, w_coke, w_can, w_beverage}
      [] key = "laptop" -> {w_laptop, w_computer, w_device}
      [] OTHER -> {}

\* the placeholder bounding box, in hundredths
PlaceholderBbox == <<10, 10, 20, 20>>

\* the for loop of lines 50-53: the first object whose label is in `labels`,
\* 0 for None
first_labelled(objs, labels) ==
    LET hits == {i \in DOMAIN objs : Lower(objs[i].label) \in labels}
    IN  IF hits = {} THEN 0 ELSE CHOOSE i \in hits : \A j \in hits : i <= j

\* max(objs, key=confidence): the first object of the greatest confidence
max_confidence(objs) ==
    CHOOSE i \in DOMAIN objs :
        /\ \A j \in DOMAIN objs : objs[j].confidence <= objs[i].confidence
        /\ \A j \in 1..(i - 1) : objs[j].confidence < objs[i].confidence

\* the overlay of a chosen object index, 0 for None
overlay_of(objs, chosen, key) ==
    IF chosen = 0
    THEN [bbox |-> PlaceholderBbox, detected_label |-> w_unknown,
          selected_product_key |-> key]
    ELSE [bbox |-> objs[chosen].bbox, detected_label |-> objs[chosen].label,
          selected_product_key |-> key]

\* the most confident object taken whatever the labels are
_select_overlay_confidence_first(sc, key) ==
    LET objs == sc.detected_objects
    IN  overlay_of(objs, IF objs # <<>> THEN max_confidence(objs) ELSE 0, key)

\* the overlay always reporting the pizza product
_select_overlay_fixed_key(sc, key) ==
    LET objs == sc.detected_objects
        labelled == first_labelled(objs, label_map(key))
        chosen == IF labelled = 0 /\ objs # <<>> THEN max_confidence(objs) ELSE labelled
    IN  overlay_of(objs, chosen, "pizza")

\* SeamlessAdService._select_overlay
_select_overlay(sc, key) ==
    LET objs == sc.detected_objects
        labelled == first_labelled(objs, label_map(key))
        chosen == IF labelled = 0 /\ objs # <<>> THEN max_confidence(objs) ELSE labelled
    IN  overlay_of(objs, chosen, key)

\* the SeamlessAdResponse of lines 32-40
ad_response(sc, ov, u, t, kroger_results, why) ==
    [scene_id |-> sc.scene_id,
     timestamp_range |-> sc.timestamp_range,
     overlay |-> ov,
     user_profile |-> u,
     targeting_context |-> t,
     kroger_results |-> kroger_results,
     rationale |-> why]

\* ------------------------------------------------------------ input spaces
EmptyDict == [k \in {} |-> 0]

PartialFns(K, V) == UNION {[S -> V] : S \in SUBSET K}

DietVocab == {w_low_sugar, w_Healthy, w_Comfort_Food, w_indulgent, w_balanced}
SignalNames == {"often_uses_deals", "prefers_premium", "prefers_delivery", "prefers_pickup"}

TagVocab == {w_dinner, w_drink, w_Soda, w_friends}
DialogueVocab == {w_cheesy, w_night}
KeywordVocab == {w_sleepover, w_cola, w_lab}
ObjectVocab ==
    {[label |-> w_Laptop, confidence |-> 90, bbox |-> <<10, 20, 30, 40>>],
     [label |-> w_can, confidence |-> 50, bbox |-> <<50, 50, 10, 10>>]}
ProductSignalVocab ==
    {[category |-> w_pizza, labels |-> {}, brands |-> {}],
     [category |-> w_Beverage, labels |-> {w_can}, brands |-> {w_Coca_Cola}],
     [category |-> w_tech, labels |-> {w_Pizza}, brands |-> {w_Soda}],
     [category |-> w_tech, labels |-> {w_laptop}, brands |-> {}]}

\* users that vary in everything _build_targeting_context reads of a user
SweepUsers ==
    {[dietary_preferences |-> d, brand_affinities |-> (w_Coca_Cola :> 85),
      watch_time_context |-> w_late_night, engagement_signals |-> e,
      location_zip |-> "94107"] :
        d \in SubsetsUpTo(DietVocab, MaxPrefs), e \in PartialFns(SignalNames, BOOLEAN)}

\* users that vary in everything _select_product reads of a user
CueUsers ==
    {[dietary_preferences |-> {w_comfort_food}, brand_affinities |-> b,
      watch_time_context |-> w, engagement_signals |-> ("often_uses_deals" :> TRUE),
      location_zip |-> "94107"] :
        b \in {EmptyDict, (w_Coca_Cola :> 59), (w_Coca_Cola :> 60)},
        w \in {w_weekend, w_weekday_late_night}}

Episodes ==
    {[genres |-> {}, tone_tags |-> {}, setting_tags |-> {}, keywords |-> k,
      show_title |-> w_Stranger_Things, episode_title |-> w_weekend,
      prominent_products |-> p] :
        k \in SubsetsUpTo(KeywordVocab, MaxTerms),
        p \in SubsetsUpTo(ProductSignalVocab, MaxTerms)}

Scenes ==
    {[detected_objects |-> o, scene_tags |-> tg, dialogue_keywords |-> d, episode |-> e] :
        o \in SeqsUpTo(ObjectVocab, MaxTerms),
        tg \in SubsetsUpTo(TagVocab, MaxTags),
        d \in SubsetsUpTo(DialogueVocab, MaxTerms),
        e \in {<<>>} \cup {<<ep>> : ep \in Episodes}}

\* a few scenes, one for each target category and one without any signal
ProbeScenes ==
    {sc \in Scenes :
        /\ sc.detected_objects = <<>>
        /\ sc.dialogue_keywords = {}
        /\ sc.episode = <<>>
        /\ Cardinality(sc.scene_tags) <= 1}

TargetingInputs ==
    {[target_category |-> c, price_sensitivity |-> "med", health_tilt |-> "balanced",
      delivery_preference |-> "any"] : c \in {"snacks", "frozen", "beverage"}}

NoTargeting ==
    [target_category |-> "", price_sensitivity |-> "", health_tilt |-> "",
     delivery_preference |-> ""]

NoOverlay == [bbox |-> <<>>, detected_label |-> <<>>, selected_product_key |-> ""]

\* no JSON document was given
NoRaw == [absent |-> TRUE]

\* the UserProfile and the VideoMetadata of a run that has constructed none
NoUser ==
    [dietary_preferences |-> {}, brand_affinities |-> EmptyDict,
     watch_time_context |-> w_weekend, engagement_signals |-> EmptyDict,
     location_zip |-> ""]

NoScene ==
    [detected_objects |-> <<>>, scene_tags |-> {}, dialogue_keywords |-> {},
     episode |-> <<>>]

\* --------------------------------------------------------------- schemas.py
MinHouseholdSize == 1

MaxHouseholdSize == 8

MaxConfidence == 100

BboxLen == 4

TimestampRangeLen == 2

\* household_size accepted whatever its size above 1
household_size_ok_unbounded(n) == n >= MinHouseholdSize

\* household_size: int = Field(ge=1, le=8)
household_size_ok(n) == n >= MinHouseholdSize /\ n <= MaxHouseholdSize

\* confidence: float = Field(ge=0.0, le=1.0), in hundredths
confidence_ok(c) == c >= 0 /\ c <= MaxConfidence

\* DetectedObject.validate_bbox
validate_bbox(v) == Len(v) = BboxLen

\* VideoMetadata.validate_timestamp_range
validate_timestamp_range(v) == Len(v) = TimestampRangeLen

\* UserProfile(**raw) passes validation
UserProfile_ok(raw) == household_size_ok(raw.household_size)

\* DetectedObject(**raw) passes validation
DetectedObject_ok(raw) == confidence_ok(raw.confidence) /\ validate_bbox(raw.bbox)

\* VideoMetadata(**raw) passes validation, its detected objects included
VideoMetadata_ok(raw) ==
    /\ validate_timestamp_range(raw.timestamp_range)
    /\ \A i \in DOMAIN raw.detected_objects : DetectedObject_ok(raw.detected_objects[i])

\* the UserProfile constructed from a valid document
UserProfile_of(raw) ==
    [age_range |-> raw.age_range, household_size |-> raw.household_size,
     location_zip |-> raw.location_zip,
     dietary_preferences |->
         {raw.dietary_preferences[i] : i \in DOMAIN raw.dietary_preferences},
     brand_affinities |-> raw.brand_affinities,
     watch_time_context |-> raw.watch_time_context,
     engagement_signals |-> raw.engagement_signals]

\* the VideoMetadata constructed from a valid document
VideoMetadata_of(raw) ==
    [scene_id |-> raw.scene_id, timestamp_range |-> raw.timestamp_range,
     detected_objects |-> raw.detected_objects,
     scene_tags |-> {raw.scene_tags[i] : i \in DOMAIN raw.scene_tags},
     dialogue_keywords |-> {},
     episode |-> <<>>]

\* ------------------------------------------------------- user_profiles.py
\* Objects live in a heap and are named by references (positive integers): a
\* UserProfile holds its scalar fields and the references of its list and its
\* three dicts, so that sharing an object and copying it are different things.
w_Spindrift == <<"S","p","i","n","d","r","i","f","t">>
w_weekday_evening == <<"w","e","e","k","d","a","y","_","e","v","e","n","i","n","g">>

PersonaKeyA == <<"A">>

PersonaKeyB == <<"B">>

\* the objects one UserProfile is made of, the profile itself at reference r
\* and its list and dicts at r+1 .. r+4
ProfileSize == 5

profile_objects(r, p) ==
    (r :> [age_range |-> p.age_range, household_size |-> p.household_size,
           location_zip |-> p.location_zip, location_metro |-> p.location_metro,
           dietary_preferences |-> r + 1, brand_affinities |-> r + 2,
           cuisine_affinities |-> r + 3,
           watch_time_context |-> p.watch_time_context,
           engagement_signals |-> r + 4])
    @@ (r + 1 :> p.dietary_preferences)
    @@ (r + 2 :> p.brand_affinities)
    @@ (r + 3 :> p.cuisine_affinities)
    @@ (r + 4 :> p.engagement_signals)

PersonaA ==
    [age_range |-> "25-34", household_size |-> 2, location_zip |-> "94107",
     location_metro |-> "SF Bay Area",
     dietary_preferences |-> <<w_comfort_food, w_no_beef>>,
     brand_affinities |-> (w_Coca_Cola :> 85) @@ (w_Pepsi :> 20),
     cuisine_affinities |-> ("Italian" :> 70) @@ ("Mexican" :> 40),
     watch_time_context |-> w_late_night,
     engagement_signals |-> ("often_pauses_for_food_scenes" :> TRUE)
         @@ ("often_uses_deals" :> TRUE) @@ ("prefers_delivery" :> TRUE)]

PersonaB ==
    [age_range |-> "30-44", household_size |-> 1, location_zip |-> "98109",
     location_metro |-> "Seattle Metro",
     dietary_preferences |-> <<w_balanced, w_low_sugar>>,
     brand_affinities |-> (w_Spindrift :> 60) @@ (w_Coca_Cola :> 30),
     cuisine_affinities |-> ("Japanese" :> 60) @@ ("Mediterranean" :> 50),
     watch_time_context |-> w_weekday_evening,
     engagement_signals |-> ("prefers_pickup" :> TRUE) @@ ("prefers_premium" :> TRUE)]

\* USER_PERSONAS after import
InitialRegistry == (PersonaKeyA :> 1) @@ (PersonaKeyB :> 1 + ProfileSize)

InitialHeap ==
    profile_objects(1, PersonaA) @@ profile_objects(1 + ProfileSize, PersonaB)

\* the next free reference of heap h
next_ref(h) == (CHOOSE r \in DOMAIN h : \A q \in DOMAIN h : q <= r) + 1

\* the UserProfile at reference r of heap h, read through its references
profile_at(h, r) ==
    [age_range |-> h[r].age_range, household_size |-> h[r].household_size,
     location_zip |-> h[r].location_zip, location_metro |-> h[r].location_metro,
     dietary_preferences |-> h[h[r].dietary_preferences],
     brand_affinities |-> h[h[r].brand_affinities],
     cuisine_affinities |-> h[h[r].cuisine_affinities],
     watch_time_context |-> h[r].watch_time_context,
     engagement_signals |-> h[h[r].engagement_signals]]

\* the key upper-cased without the whitespace being stripped
normalized_unstripped(user_key) == Upper(user_key)

\* normalized = user_key.strip().upper()
normalized(user_key) == Upper(strip(user_key))

\* the profile object alone copied, its list and dicts shared with the original
model_copy_shallow(h, r) == h @@ (next_ref(h) :> h[r])

\* model_copy(deep=True): the heap with a copy of the UserProfile at r, made of
\* new objects only, at next_ref(h)
model_copy_deep(h, r) == h @@ profile_objects(next_ref(h), profile_at(h, r))

\* the UserProfile the pipeline reads at reference r; the recommender and the
\* query builder only test membership in dietary_preferences
as_user(h, r) ==
    LET p == profile_at(h, r)
    IN  [age_range |-> p.age_range, household_size |-> p.household_size,
         location_zip |-> p.location_zip, location_metro |-> p.location_metro,
         dietary_preferences |->
             {p.dietary_preferences[i] : i \in DOMAIN p.dietary_preferences},
         brand_affinities |-> p.brand_affinities,
         cuisine_affinities |-> p.cuisine_affinities,
         watch_time_context |-> p.watch_time_context,
         engagement_signals |-> p.engagement_signals]

\* ------------------------------------------------- recommender operations
\* the (user, targeting) pairs of the scene sweep: every affinity with every
\* target category, and the night watch-time context once
CueInputs ==
    {<<u, t>> \in CueUsers \X TargetingInputs :
        \/ u.watch_time_context = w_weekend
        \/ u.brand_affinities = EmptyDict /\ t.target_category = "snacks"}

\* no recommender call is in progress
RecIdle ==
    /\ user = [dietary_preferences |-> {}, brand_affinities |-> EmptyDict,
               watch_time_context |-> w_weekend, engagement_signals |-> EmptyDict,
               location_zip |-> ""]
    /\ scene = [detected_objects |-> <<>>, scene_tags |-> {}, dialogue_keywords |-> {},
                episode |-> <<>>]
    /\ tc_in = NoTargeting
    /\ op = "idle"
    /\ targeting = NoTargeting
    /\ product_key = ""
    /\ rationale = <<>>

\* no direct _rank_results call is in progress
RankIdle ==
    /\ rank_pc = "idle"
    /\ rank_in = [results |-> <<>>, price_sensitivity |-> "med", brand_bias |-> <<>>]
    /\ rank_out = <<>>

\* no find_kroger_products call is in progress
FindIdle ==
    /\ tool_client = "mock"
    /\ fk_pc = "idle"
    /\ fk_query = ""
    /\ fk_idx = 0
    /\ fk_calls = <<>>
    /\ fk_returns = <<>>
    /\ fk_raw = <<>>
    /\ fk_ranked = <<>>
    /\ fk_out = <<>>

\* no generate_ad_response or _select_overlay call is in progress
SvcIdle ==
    /\ svc_pc = "idle"
    /\ overlay = NoOverlay
    /\ response = <<>>

\* cli.main is not running
MainIdle ==
    /\ main_pc = "idle"
    /\ raw_user = NoRaw
    /\ raw_scene = NoRaw

\* the persona module as it is after import, with no get_user_profile call made
PersonaIdle ==
    /\ USER_PERSONAS = InitialRegistry
    /\ heap = InitialHeap
    /\ held = <<>>
    /\ gp_key = <<>>
    /\ gp_result = "none"

\* the content ids a POST /api/discover can carry
ContentIds == {"c1", "c2"}

\* cart_management.py lines 20-27: the cart of a freshly imported module, its id
\* the first uuid4 drawn
CartIdle ==
    /\ _cart = [id |-> 1, items |-> <<>>, total |-> 0, item_count |-> 0]
    /\ _product_cache = EmptyDict
    /\ uuids = 1
    /\ cart_call = [op |-> "none"]
    /\ cart_ret = [op |-> "none"]
    /\ cart_log = <<>>
    /\ orders = {}

DiscIdle ==
    /\ disc_call = [op |-> "none"]
    /\ disc_ret = <<>>

\* server.py line 26: no active run, nothing scheduled
SrvIdle ==
    /\ _active_runs = {}
    /\ bg_scheduled = [c \in ContentIds |-> 0]
    /\ bg_running = [c \in ContentIds |-> 0]
    /\ bg_last = [outcome |-> "none"]
    /\ http_ret = [status |-> "none"]
    /\ posts = 0

ToolsIdle == CartIdle /\ DiscIdle /\ SrvIdle

OthersIdle == SvcIdle /\ MainIdle /\ PersonaIdle /\ ToolsIdle

RecInit ==
    /\ RankIdle
    /\ FindIdle
    /\ OthersIdle
    /\ \/ /\ scene \in Scenes
          /\ \E ut \in CueInputs : user = ut[1] /\ tc_in = ut[2]
       \/ /\ user \in SweepUsers /\ scene \in ProbeScenes
          /\ tc_in \in {t \in TargetingInputs : t.target_category = "snacks"}
    /\ op = "init"
    /\ targeting = NoTargeting
    /\ product_key = ""
    /\ rationale = <<>>

\* a call of AdRecommender._build_targeting_context(user, scene)
BuildTargetingContext ==
    /\ op = "init"
    /\ op' = "build_targeting_context"
    /\ targeting' = _build_targeting_context(user, scene)
    /\ product_key' = ""
    /\ rationale' = <<>>
    /\ UNCHANGED <<user, scene, tc_in, rank_vars, fk_vars, svc_vars, main_vars, persona_vars, tool_vars>>

\* a call of AdRecommender._select_product(user, scene, tc_in)
SelectProduct ==
    /\ op = "init"
    /\ op' = "select_product"
    /\ LET sel == _select_product(user, scene, tc_in)
       IN  /\ product_key' = sel.key
           /\ rationale' = sel.rationale
    /\ targeting' = NoTargeting
    /\ UNCHANGED <<user, scene, tc_in, rank_vars, fk_vars, svc_vars, main_vars, persona_vars, tool_vars>>

\* a call of AdRecommender.recommend(user, scene)
Recommend ==
    /\ op = "init"
    /\ op' = "recommend"
    /\ LET r == recommend(user, scene)
       IN  /\ product_key' = r.product_key
           /\ rationale' = r.rationale
           /\ targeting' = r.targeting
    /\ UNCHANGED <<user, scene, tc_in, rank_vars, fk_vars, svc_vars, main_vars, persona_vars, tool_vars>>

RecNext == BuildTargetingContext \/ SelectProduct \/ Recommend

SpecRecommender == RecInit /\ [][RecNext]_vars

\* ------------------------------------------------ claims: the recommender
\* the targeting context the selector ran with
UsedTargeting == IF op = "recommend" THEN targeting ELSE tc_in

SelectorRan == op \in {"select_product", "recommend"}

BuilderRan == op \in {"build_targeting_context", "recommend"}

\* the eight rules of the claim, by number
RuleMatches(n, u, sc, t) ==
    LET terms == all_terms_of(sc)
        prominent == _prominent_products(sc)
    IN  CASE n = 1 -> w_pizza \in prominent
          [] n = 2 -> ({w_beverage, w_soda, w_cola} \cap prominent) # {}
          [] n = 3 -> ({w_pizza, w_slice, w_cheesy} \cap terms) # {}
          [] n = 4 -> (tech_signal_set \cap terms) # {}
          [] n = 5 -> (hangout_signal_set \cap terms) # {}
          [] n = 6 -> ({w_soda, w_cola, w_coke, w_beverage, w_drink, w_can} \cap terms) # {}
          [] n = 7 -> /\ coke_affinity_of(u) >= 60
                      /\ \/ t.target_category = "beverage"
                         \/ ({w_beverage, w_soda, w_cola} \cap terms) # {}
          [] OTHER -> TRUE

RuleKey(n, t) ==
    CASE n \in {1, 3, 5} -> "pizza"
      [] n \in {2, 6, 7} -> "coke"
      [] n = 4 -> "laptop"
      [] OTHER -> IF t.target_category = "beverage" THEN "coke"
                  ELSE IF t.target_category = "frozen" THEN "pizza"
                  ELSE "laptop"

FirstRule(u, sc, t) ==
    CHOOSE n \in 1..8 :
        /\ RuleMatches(n, u, sc, t)
        /\ \A m \in 1..(n - 1) : ~RuleMatches(m, u, sc, t)

ProminentBeverage(sc) == ({w_beverage, w_soda, w_cola} \cap _prominent_products(sc)) # {}

SceneBeverage(sc) ==
    \/ ({w_beverage, w_soda, w_cola, w_drink} \cap sc.scene_tags) # {}
    \/ ({w_beverage, w_soda, w_cola} \cap _episode_terms(sc)) # {}

ProminentPizza(sc) == w_pizza \in _prominent_products(sc)

SceneFrozen(sc) ==
    \/ ({w_pizza, w_dinner, w_late_night} \cap sc.scene_tags) # {}
    \/ ({w_late_night, w_sleepover, w_game_night} \cap _episode_terms(sc)) # {}

\* C4 as stated: any beverage signal (prominent product, scene tag or episode
\* term) makes target_category "beverage", whatever frozen signals are present.
C4_AnyBeverageSignalWins ==
    (BuilderRan /\ (ProminentBeverage(scene) \/ SceneBeverage(scene))) =>
        targeting.target_category = "beverage"

\* C4 amended: a beverage scene tag or episode term makes target_category
\* "beverage" whatever frozen signals are present; a prominent-product beverage
\* signal makes it "beverage" exactly when no frozen scene tag or episode term
\* is present without a beverage scene tag or episode term (then it is "frozen").
C4_BeverageWinsWithinTier ==
    BuilderRan =>
        /\ SceneBeverage(scene) => targeting.target_category = "beverage"
        /\ (ProminentBeverage(scene) /\ ~SceneFrozen(scene)) =>
               targeting.target_category = "beverage"
        /\ (ProminentBeverage(scene) /\ SceneFrozen(scene) /\ ~SceneBeverage(scene)) =>
               targeting.target_category = "frozen"

\* the builder ran on a scene with a beverage tag, a frozen tag and prominent pizza
C4_Witness ==
    /\ op = "build_targeting_context"
    /\ w_drink \in scene.scene_tags
    /\ w_dinner \in scene.scene_tags
    /\ ProminentPizza(scene)
    /\ targeting.target_category = "beverage"

NoRuleBeforeFallback(u, sc, t) == \A n \in 1..7 : ~RuleMatches(n, u, sc, t)

\* C5: when none of rules 1-7 matches, the rationale starts with the
\* universal-placement line and the key follows target_category alone
\* (beverage -> coke, frozen -> pizza, otherwise laptop); with target_category
\* "snacks" the key is "laptop" and that line is the whole rationale.
C5_Fallback ==
    (SelectorRan /\ NoRuleBeforeFallback(user, scene, UsedTargeting)) =>
        /\ Len(rationale) >= 1
        /\ rationale[1] = "Defaulted to universal placement"
        /\ product_key = (IF UsedTargeting.target_category = "beverage" THEN "coke"
                          ELSE IF UsedTargeting.target_category = "frozen" THEN "pizza"
                          ELSE "laptop")
        /\ UsedTargeting.target_category = "snacks" =>
               /\ product_key = "laptop"
               /\ rationale = <<"Defaulted to universal placement">>

\* a direct call with no signal in the scene and target_category "snacks"
C5_Witness ==
    /\ op = "select_product"
    /\ all_terms_of(scene) = {}
    /\ _prominent_products(scene) = {}
    /\ tc_in.target_category = "snacks"
    /\ product_key = "laptop"
    /\ rationale = <<"Defaulted to universal placement">>

Signal(u, name) == name \in DOMAIN u.engagement_signals /\ u.engagement_signals[name]

HasPref(u, names) == \E p \in u.dietary_preferences : Lower(p) \in names

\* C6: the three user-derived fields are decided by the last matching check and
\* by the user alone: high over low over med, indulgent over healthy over
\* balanced, pickup over delivery over any.
C6_UserFields ==
    BuilderRan =>
        /\ targeting.price_sensitivity =
               (IF Signal(user, "prefers_premium") THEN "high"
                ELSE IF Signal(user, "often_uses_deals") THEN "low" ELSE "med")
        /\ targeting.health_tilt =
               (IF HasPref(user, {w_indulgent, w_comfort_food}) THEN "indulgent"
                ELSE IF HasPref(user, {w_low_sugar, w_low_fat, w_healthy}) THEN "healthy"
                ELSE "balanced")
        /\ targeting.delivery_preference =
               (IF Signal(user, "prefers_pickup") THEN "pickup"
                ELSE IF Signal(user, "prefers_delivery") THEN "delivery" ELSE "any")

\* the builder ran for a user for whom both checks of every field match, on a
\* scene that has a tag
C6_Witness ==
    /\ op = "build_targeting_context"
    /\ Signal(user, "prefers_premium") /\ Signal(user, "often_uses_deals")
    /\ Signal(user, "prefers_pickup") /\ Signal(user, "prefers_delivery")
    /\ user.dietary_preferences = {w_Healthy, w_Comfort_Food}
    /\ scene.scene_tags # {}
    /\ targeting.price_sensitivity = "high"
    /\ targeting.health_tilt = "indulgent"
    /\ targeting.delivery_preference = "pickup"

\* ------------------------------------------------ direct _rank_results calls
\* candidate dicts as the catalog clients build them; a candidate may carry no
\* "price" key.  The "id" is the candidate's position in the client's list.
CandidateVocab ==
    {[name |-> n, price |-> c, in_stock |-> s] :
        n \in {w_Diet_Coke, w_Pepsi}, c \in {199, 649}, s \in BOOLEAN}
    \cup {[name |-> w_Diet_Coke, in_stock |-> TRUE]}

WithIds(templates) == [i \in DOMAIN templates |-> ("id" :> i) @@ templates[i]]

CandidateLists == {WithIds(t) : t \in SeqsUpTo(CandidateVocab, MaxRanked)}

BrandBiasLists == {<<>>, <<w_COKE>>, <<w_Fanta, w_COKE>>}

RankInit ==
    /\ rank_pc = "called"
    /\ rank_in \in [results : CandidateLists,
                    price_sensitivity : {"low", "med", "high"},
                    brand_bias : BrandBiasLists]
    /\ rank_out = <<>>
    /\ RecIdle
    /\ FindIdle
    /\ OthersIdle

\* _rank_results(results, price_sensitivity, brand_bias) returns
RankResults ==
    /\ rank_pc = "called"
    /\ rank_pc' = "returned"
    /\ rank_out' = _rank_results(rank_in.results, rank_in.price_sensitivity,
                                 rank_in.brand_bias)
    /\ UNCHANGED <<rank_in, rec_vars, fk_vars, svc_vars, main_vars, persona_vars, tool_vars>>

RankNext == RankResults

SpecRank == RankInit /\ [][RankNext]_vars

\* ----------------------------------------------------- claims: the ranker
InStock(c) == IF "in_stock" \in DOMAIN c THEN c.in_stock ELSE TRUE

HasBrandHit(c, bias) ==
    \E i \in DOMAIN bias : IsSubstring(Lower(bias[i]), Lower(c.name))

\* the price a candidate is ranked by: its price, 999.00 when it carries none
RankPrice(c) == IF "price" \in DOMAIN c THEN c.price ELSE 99900

SameGroup(a, b) ==
    /\ InStock(a) = InStock(b)
    /\ HasBrandHit(a, rank_in.brand_bias) = HasBrandHit(b, rank_in.brand_bias)

\* C7: in the output of _rank_results no out-of-stock candidate precedes an
\* in-stock one, and among candidates of equal stock status none without a
\* brand hit precedes one with a brand hit, whatever the prices.
C7_StockThenBrand ==
    rank_pc = "returned" =>
        \A i, j \in DOMAIN rank_out :
            i < j =>
                /\ ~(~InStock(rank_out[i]) /\ InStock(rank_out[j]))
                /\ (InStock(rank_out[i]) = InStock(rank_out[j])) =>
                       ~(~HasBrandHit(rank_out[i], rank_in.brand_bias)
                         /\ HasBrandHit(rank_out[j], rank_in.brand_bias))

\* a cheap out-of-stock candidate without brand hit was given first and came out
\* behind a dearer in-stock candidate with a brand hit
C7_Witness ==
    /\ rank_pc = "returned"
    /\ rank_in.price_sensitivity = "low"
    /\ Len(rank_out) = 3
    /\ rank_out[1].id = 3
    /\ InStock(rank_out[1]) /\ HasBrandHit(rank_out[1], rank_in.brand_bias)
    /\ RankPrice(rank_out[1]) > RankPrice(rank_out[2])
    /\ InStock(rank_out[2]) /\ ~HasBrandHit(rank_out[2], rank_in.brand_bias)
    /\ ~InStock(rank_out[3]) /\ RankPrice(rank_out[3]) < RankPrice(rank_out[2])

\* C8: within a group of equal stock status and equal brand hit the output is
\* non-decreasing in price for "low" and "med" and non-increasing for "high".
C8_PriceDirection ==
    rank_pc = "returned" =>
        \A i, j \in DOMAIN rank_out :
            (i < j /\ SameGroup(rank_out[i], rank_out[j])) =>
                IF rank_in.price_sensitivity = "high"
                THEN RankPrice(rank_out[i]) >= RankPrice(rank_out[j])
                ELSE RankPrice(rank_out[i]) <= RankPrice(rank_out[j])

\* with "high", two candidates of one group given cheaper-first came out dearer-first
C8_Witness ==
    /\ rank_pc = "returned"
    /\ rank_in.price_sensitivity = "high"
    /\ Len(rank_out) >= 2
    /\ SameGroup(rank_out[1], rank_out[2])
    /\ rank_out[1].id > rank_out[2].id
    /\ RankPrice(rank_out[1]) > RankPrice(rank_out[2])

PositionOf(id, s) == CHOOSE k \in DOMAIN s : s[k].id = id

\* C9: two candidates with equal stock status, equal brand hit and equal price
\* keep their input order in the output.
C9_Stable ==
    rank_pc = "returned" =>
        \A i, j \in DOMAIN rank_in.results :
            (/\ i < j
             /\ SameGroup(rank_in.results[i], rank_in.results[j])
             /\ RankPrice(rank_in.results[i]) = RankPrice(rank_in.results[j])) =>
                PositionOf(rank_in.results[i].id, rank_out)
                    < PositionOf(rank_in.results[j].id, rank_out)

\* the first and the last of three candidates tie on stock, brand hit and price,
\* the middle one ranks ahead of both
C9_Witness ==
    /\ rank_pc = "returned"
    /\ Len(rank_out) = 3
    /\ rank_out[1].id = 2 /\ rank_out[2].id = 1 /\ rank_out[3].id = 3
    /\ SameGroup(rank_out[2], rank_out[3])
    /\ RankPrice(rank_out[2]) = RankPrice(rank_out[3])

\* ------------------------------------------- find_kroger_products calls
\* what a catalog client may return as "results"
KrogerVocab ==
    {[name |-> w_Coca_Cola, price |-> 649, in_stock |-> TRUE, unit |-> "item",
      size |-> "1 unit", image_url |-> "https://images.kroger.com/product/coke.jpg"],
     [name |-> w_Pepsi, price |-> 199, in_stock |-> TRUE, unit |-> "each",
      size |-> "each", image_url |-> ""],
     [name |-> w_Pepsi, price |-> 199, in_stock |-> FALSE]}

ClientResults == {WithIds(t) : t \in SeqsUpTo(KrogerVocab, MaxResults)}

\* candidates of a catalog whose records are incomplete: the image_url is a
\* URL, the empty string, null, or the key is missing
SparseVocab ==
    {[name |-> w_Coca_Cola, price |-> 649, in_stock |-> TRUE,
      image_url |-> "https://images.kroger.com/product/coke.jpg"],
     [name |-> w_Pepsi, price |-> 199, in_stock |-> TRUE, image_url |-> ""],
     [name |-> w_Pepsi, price |-> 249, in_stock |-> TRUE, image_url |-> None],
     [name |-> w_Coca_Cola, price |-> 599, in_stock |-> FALSE]}

SparseResults == {WithIds(t) : t \in SeqsUpTo(SparseVocab, MaxResults)}

KrogerUsers ==
    {[dietary_preferences |-> d, brand_affinities |-> b,
      watch_time_context |-> w_weekend, engagement_signals |-> EmptyDict,
      location_zip |-> "94107"] :
        d \in {{}, {w_No_Beef}},
        b \in {EmptyDict,
               (w_Coca_Cola :> 60) @@ (w_Pepsi :> 49),
               (w_Coca_Cola :> 59) @@ (w_Pepsi :> 50)}}

FindInit ==
    /\ user \in KrogerUsers
    /\ product_key \in {"pizza", "coke", "laptop", "snacks"}
    /\ targeting \in {[target_category |-> "snacks", price_sensitivity |-> s,
                       health_tilt |-> "balanced", delivery_preference |-> "any"] :
                         s \in {"low", "med", "high"}}
    /\ scene = [detected_objects |-> <<>>, scene_tags |-> {}, dialogue_keywords |-> {},
                episode |-> <<>>]
    /\ tc_in = NoTargeting
    /\ op = "idle"
    /\ rationale = <<>>
    /\ RankIdle
    /\ OthersIdle
    /\ tool_client \in {"mock", "catalog"}
    /\ fk_pc = "primary"
    /\ fk_query = _build_query(product_key, user)
    /\ fk_idx = 0
    /\ fk_calls = <<>>
    /\ fk_returns = <<>>
    /\ fk_raw = <<>>
    /\ fk_ranked = <<>>
    /\ fk_out = <<>>

\* lines 306-324: rank `results`, keep the top three, build the ProductResults
FindFinish(results, query, brand_bias) ==
    \E ranked \in {_rank_results(results, targeting.price_sensitivity, brand_bias)} :
    LET top == top_ranked(ranked)
    IN  /\ fk_pc' = "done"
        /\ fk_query' = query
        /\ fk_raw' = results
        /\ fk_ranked' = ranked
        /\ fk_out' = [i \in DOMAIN top |-> product_result(top[i], query)]

\* ------------------------------------------------- MockKrogerToolClient
\* the characters of the queries a mock search can be asked
QueryChars ==
    [q \in {"vegetarian frozen pizza", "frozen pizza", "Coca-Cola", "cola soda",
            "laptop computer", "pizza", "coke", "laptop", "snacks"} |->
        CASE q = "vegetarian frozen pizza" -> <<"v","e","g","e","t","a","r","i","a","n"," ","f","r","o","z","e","n"," ","p","i","z","z","a">>
          [] q = "frozen pizza" -> <<"f","r","o","z","e","n"," ","p","i","z","z","a">>
          [] q = "Coca-Cola" -> w_Coca_Cola
          [] q = "cola soda" -> <<"c","o","l","a"," ","s","o","d","a">>
          [] q = "laptop computer" -> <<"l","a","p","t","o","p"," ","c","o","m","p","u","t","e","r">>
          [] q = "pizza" -> w_pizza
          [] q = "coke" -> w_coke
          [] q = "laptop" -> w_laptop
          [] q = "snacks" -> <<"s","n","a","c","k","s">>]

\* str.title(): a letter that follows no letter is upper-cased, every other
\* letter lower-cased
Title(s) ==
    [i \in DOMAIN s |->
        IF i = 1 \/ ~IsLetter(s[i - 1]) THEN UpperChar(s[i]) ELSE LowerChar(s[i])]

Digits == <<"1", "2", "3", "4", "5">>

MockBasePrice == 649

MockPriceStep == 60

MockTotal == 5

\* MockKrogerToolClient.search_products(query, filters)["results"]: the first
\* three of five variants; an id is unique within the answer
mock_search_products(query, max_price) ==
    LET base_price == IF max_price < MockBasePrice THEN max_price ELSE MockBasePrice
        results ==
            [i \in 1..MockTotal |->
                [id |-> i,
                 name |-> Title(QueryChars[query]) \o <<" ","V","a","r","i","a","n","t"," ">> \o <<Digits[i]>>,
                 price |-> base_price + (i - 1) * MockPriceStep,
                 unit |-> "item",
                 size |-> "1 unit",
                 in_stock |-> TRUE,
                 image_url |-> GenericImageUrl]]
    IN  SubSeq(results, 1, 3)

\* what client.search_products(query, filters).get("results", []) can be
search_results(client, query, max_price) ==
    IF client = "mock" THEN {mock_search_products(query, max_price)}
    ELSE IF client = "sparse" THEN SparseResults
    ELSE ClientResults

\* lines 295-297: the primary search returns `results`
FindPrimarySearch ==
    /\ fk_pc = "primary"
    /\ \E max_price \in {_price_filter(targeting.price_sensitivity)} :
       \E results \in search_results(tool_client, fk_query, max_price),
          brand_bias \in {brand_bias_of(user)} :
        /\ fk_calls' = Append(fk_calls, search_call(fk_query, max_price, 6, user))
        /\ fk_returns' = Append(fk_returns, Len(results))
        /\ IF results # <<>>
           THEN FindFinish(results, fk_query, brand_bias) /\ UNCHANGED fk_idx
           ELSE /\ fk_pc' = "fallback"
                /\ fk_idx' = 1
                /\ UNCHANGED <<fk_query, fk_raw, fk_ranked, fk_out>>
    /\ UNCHANGED <<tool_client, rec_vars, rank_vars, svc_vars, main_vars, persona_vars, tool_vars>>

\* lines 300-305: one fallback search returns `results`
FindFallbackSearch ==
    /\ fk_pc = "fallback"
    /\ LET fallback == fallback_queries(fk_query, product_key)[fk_idx]
       IN  \E max_price \in {_price_filter(targeting.price_sensitivity) * 2} :
           \E results \in search_results(tool_client, fallback, max_price),
              brand_bias \in {brand_bias_of(user)} :
            /\ fk_calls' = Append(fk_calls, search_call(fallback, max_price, 10, user))
            /\ fk_returns' = Append(fk_returns, Len(results))
            /\ IF results # <<>>
               THEN FindFinish(results, fallback, brand_bias) /\ UNCHANGED fk_idx
               ELSE IF fk_idx = Len(fallback_queries(fk_query, product_key))
               THEN FindFinish(<<>>, fk_query, brand_bias) /\ UNCHANGED fk_idx
               ELSE /\ fk_idx' = fk_idx + 1
                    /\ UNCHANGED <<fk_pc, fk_query, fk_raw, fk_ranked, fk_out>>
    /\ UNCHANGED <<tool_client, rec_vars, rank_vars, svc_vars, main_vars, persona_vars, tool_vars>>

\* line 295: the primary search raises (KrogerAPIClient: requests.get times out
\* or raise_for_status fails); nothing in find_kroger_products catches it
FindPrimaryRaises ==
    /\ fk_pc = "primary"
    /\ tool_client = "catalog"
    /\ fk_calls' = Append(fk_calls,
           search_call(fk_query, _price_filter(targeting.price_sensitivity), 6, user))
    /\ fk_returns' = Append(fk_returns, -1)
    /\ fk_pc' = "raised"
    /\ UNCHANGED <<tool_client, fk_query, fk_idx, fk_raw, fk_ranked, fk_out>>
    /\ UNCHANGED <<rec_vars, rank_vars, svc_vars, main_vars, persona_vars, tool_vars>>

\* line 301: a fallback search raises; the loop has no handler either
FindFallbackRaises ==
    /\ fk_pc = "fallback"
    /\ tool_client = "catalog"
    /\ fk_calls' = Append(fk_calls,
           search_call(fallback_queries(fk_query, product_key)[fk_idx],
                       _price_filter(targeting.price_sensitivity) * 2, 10, user))
    /\ fk_returns' = Append(fk_returns, -1)
    /\ fk_pc' = "raised"
    /\ UNCHANGED <<tool_client, fk_query, fk_idx, fk_raw, fk_ranked, fk_out>>
    /\ UNCHANGED <<rec_vars, rank_vars, svc_vars, main_vars, persona_vars, tool_vars>>

FindNext ==
    \/ FindPrimarySearch
    \/ FindFallbackSearch
    \/ FindPrimaryRaises
    \/ FindFallbackRaises

SpecFind == FindInit /\ [][FindNext]_vars

\* ------------------------------- find_kroger_products on incomplete records
ImageInit ==
    /\ user = [dietary_preferences |-> {}, brand_affinities |-> (w_Coca_Cola :> 60),
               watch_time_context |-> w_weekend, engagement_signals |-> EmptyDict,
               location_zip |-> "94107"]
    /\ product_key \in {"pizza", "coke"}
    /\ targeting = [target_category |-> "snacks", price_sensitivity |-> "med",
                    health_tilt |-> "balanced", delivery_preference |-> "any"]
    /\ scene = [detected_objects |-> <<>>, scene_tags |-> {}, dialogue_keywords |-> {},
                episode |-> <<>>]
    /\ tc_in = NoTargeting
    /\ op = "idle"
    /\ rationale = <<>>
    /\ RankIdle
    /\ OthersIdle
    /\ tool_client = "sparse"
    /\ fk_pc = "primary"
    /\ fk_query = _build_query(product_key, user)
    /\ fk_idx = 0
    /\ fk_calls = <<>>
    /\ fk_returns = <<>>
    /\ fk_raw = <<>>
    /\ fk_ranked = <<>>
    /\ fk_out = <<>>

ImageNext ==
    \/ FindPrimarySearch
    \/ FindFallbackSearch

SpecImage == ImageInit /\ [][ImageNext]_vars

\* --------------------------------------------------- direct _build_query calls
\* users that vary in everything _build_query reads of a user
QueryUsers ==
    {[dietary_preferences |-> d, brand_affinities |-> b,
      watch_time_context |-> w_weekend, engagement_signals |-> EmptyDict,
      location_zip |-> "94107"] :
        d \in SubsetsUpTo({w_vegetarian, w_No_Beef, w_no_pork, w_balanced}, MaxPrefs),
        b \in {EmptyDict, (w_Coca_Cola :> 59), (w_Coca_Cola :> 60),
               (w_Coca_Cola :> 61) @@ (w_Pepsi :> 90), (Lower(w_Coca_Cola) :> 90)}}

QueryKeys == {"pizza", "coke", "laptop", "snacks", "Pizza", ""}

QueryInit ==
    /\ user \in QueryUsers
    /\ product_key \in QueryKeys
    /\ scene = [detected_objects |-> <<>>, scene_tags |-> {}, dialogue_keywords |-> {},
                episode |-> <<>>]
    /\ tc_in = NoTargeting
    /\ op = "idle"
    /\ targeting = NoTargeting
    /\ rationale = <<>>
    /\ RankIdle
    /\ OthersIdle
    /\ tool_client = "mock"
    /\ fk_pc = "build_query"
    /\ fk_query = ""
    /\ fk_idx = 0
    /\ fk_calls = <<>>
    /\ fk_returns = <<>>
    /\ fk_raw = <<>>
    /\ fk_ranked = <<>>
    /\ fk_out = <<>>

\* a call of _build_query(product_key, user)
BuildQuery ==
    /\ fk_pc = "build_query"
    /\ fk_pc' = "built"
    /\ fk_query' = _build_query(product_key, user)
    /\ UNCHANGED <<tool_client, fk_idx, fk_calls, fk_returns, fk_raw, fk_ranked, fk_out>>
    /\ UNCHANGED <<rec_vars, rank_vars, svc_vars, main_vars, persona_vars, tool_vars>>

QueryNext == BuildQuery

SpecQuery == QueryInit /\ [][QueryNext]_vars

\* ------------------------------------------- claims: find_kroger_products
Occurrences(x, s) == Cardinality({i \in DOMAIN s : s[i] = x})

IsPermutation(s, t) ==
    /\ Len(s) = Len(t)
    /\ \A i \in DOMAIN t : Occurrences(t[i], s) = Occurrences(t[i], t)

\* C10: the ranking is a permutation of the candidates the search returned, and
\* find_kroger_products returns the first min(3, n) of it, in ranked order.
C10_TopThreeOfPermutation ==
    fk_pc = "done" =>
        /\ IsPermutation(fk_ranked, fk_raw)
        /\ Len(fk_out) = (IF Len(fk_raw) < 3 THEN Len(fk_raw) ELSE 3)
        /\ \A i \in DOMAIN fk_out :
               /\ fk_out[i].product_id = fk_ranked[i].id
               /\ fk_out[i].name = fk_ranked[i].name

\* four candidates came back, the ranking moved the first one to the end and the
\* response carries the other three
C10_Witness ==
    /\ fk_pc = "done"
    /\ Len(fk_raw) = 4
    /\ fk_ranked[4].id = 1
    /\ Len(fk_out) = 3
    /\ fk_out[1].product_id = 4
    /\ fk_out[3].product_id = 3
    /\ Len(fk_calls) > 1

\* the query the claims give for a product key and a user
ExpectedQuery(key, u) ==
    CASE key = "pizza" ->
            IF LowerAll(u.dietary_preferences) \cap {w_vegetarian, w_no_beef, w_no_pork} # {}
            THEN "vegetarian frozen pizza" ELSE "frozen pizza"
      [] key = "coke" ->
            IF w_Coca_Cola \in DOMAIN u.brand_affinities /\ u.brand_affinities[w_Coca_Cola] >= 60
            THEN "Coca-Cola" ELSE "cola soda"
      [] key = "laptop" -> "laptop computer"
      [] OTHER -> key

\* the fallback terms the claims give, in order
ExpectedFallbacks(key, u) ==
    <<ExpectedQuery(key, u), key, "pizza", "Coca-Cola", "cola soda", "laptop computer">>

\* the max_price the claims give for a price sensitivity, in cents
ExpectedMaxPrice(t) ==
    CASE t.price_sensitivity = "low" -> 800
      [] t.price_sensitivity = "high" -> 2000
      [] OTHER -> 1200

\* the calls that returned results, by position in fk_calls
NonEmptyCalls == {k \in DOMAIN fk_returns : fk_returns[k] > 0}

\* C11: when the primary search returned results every returned product carries
\* the built query; when it returned none and some fallback search returned
\* results, the returned list is non-empty and every product carries the first
\* fallback term (in list order) whose search returned results.
C11_FallbackQueryTagged ==
    (fk_pc = "done" /\ NonEmptyCalls # {}) =>
        LET k == CHOOSE k \in NonEmptyCalls : \A j \in NonEmptyCalls : k <= j
            term == IF k = 1 THEN ExpectedQuery(product_key, user)
                    ELSE ExpectedFallbacks(product_key, user)[k - 1]
        IN  /\ fk_out # <<>>
            /\ \A i \in DOMAIN fk_out : fk_out[i].kroger_search_query = term

\* the primary search and the first two fallback searches found nothing for a
\* coke request, the hardcoded term "pizza" found two products
C11_Witness ==
    /\ fk_pc = "done"
    /\ product_key = "coke"
    /\ fk_returns = <<0, 0, 0, 2>>
    /\ Len(fk_out) = 2
    /\ fk_out[1].kroger_search_query = "pizza"
    /\ fk_calls[1].query = "cola soda"

\* C12: the primary search (built query, max_price of the price sensitivity,
\* limit 6) is the first call; every later call is the next fallback term with
\* max_price doubled and limit 10, and is issued only after every earlier call
\* returned zero results, so none follows a call that returned results.
C12_CallOrder ==
    /\ Len(fk_calls) <= 1 + Len(ExpectedFallbacks(product_key, user))
    /\ Len(fk_returns) = Len(fk_calls)
    /\ fk_pc \in {"fallback", "done", "raised"} => Len(fk_calls) >= 1
    /\ \A i \in DOMAIN fk_calls :
        /\ \A j \in 1..(i - 1) : fk_returns[j] = 0
        /\ fk_calls[i].zip = user.location_zip
        /\ IF i = 1
           THEN /\ fk_calls[i].query = ExpectedQuery(product_key, user)
                /\ fk_calls[i].max_price = ExpectedMaxPrice(targeting)
                /\ fk_calls[i].limit = 6
           ELSE /\ fk_calls[i].query = ExpectedFallbacks(product_key, user)[i - 1]
                /\ fk_calls[i].max_price = 2 * ExpectedMaxPrice(targeting)
                /\ fk_calls[i].limit = 10

\* all seven searches were issued for a snacks request of a price-sensitive
\* user, and only the last one found something
C12_Witness ==
    /\ fk_pc = "done"
    /\ product_key = "snacks"
    /\ targeting.price_sensitivity = "high"
    /\ Len(fk_calls) = 7
    /\ fk_returns[7] > 0
    /\ fk_calls[2].query = "snacks" /\ fk_calls[3].query = "snacks"
    /\ fk_calls[7].query = "laptop computer" /\ fk_calls[7].max_price = 4000

\* ------------------------------------------------- claims: _build_query
\* C16: _build_query gives "vegetarian frozen pizza" / "frozen pizza" for pizza
\* by the lower-cased dietary preferences, "Coca-Cola" / "cola soda" for coke by
\* the Coca-Cola affinity with 0.6 included, "laptop computer" for laptop, and
\* any other key unchanged.
C16_QueryMapping ==
    fk_pc = "built" => fk_query = ExpectedQuery(product_key, user)

\* the boundary affinity 0.60 gave "Coca-Cola"
C16_Witness ==
    /\ fk_pc = "built"
    /\ product_key = "coke"
    /\ user.brand_affinities = (w_Coca_Cola :> 60)
    /\ fk_query = "Coca-Cola"

\* ------------------------------------------------- direct _select_overlay calls
OverlayObjectVocab ==
    {[label |-> w_Laptop, confidence |-> 90, bbox |-> <<10, 20, 30, 40>>],
     [label |-> w_can, confidence |-> 50, bbox |-> <<50, 50, 10, 10>>],
     [label |-> w_can, confidence |-> 90, bbox |-> <<60, 60, 10, 10>>],
     [label |-> w_friends, confidence |-> 95, bbox |-> <<0, 0, 100, 100>>],
     [label |-> w_Pizza, confidence |-> 30, bbox |-> <<5, 5, 15, 15>>]}

\* a VideoMetadata with its identity: scene `sc` as scene_id `id` at `ts`
identified(sc, id, ts) ==
    [scene_id |-> id, timestamp_range |-> ts,
     detected_objects |-> sc.detected_objects, scene_tags |-> sc.scene_tags,
     dialogue_keywords |-> sc.dialogue_keywords, episode |-> sc.episode]

OverlayScenes ==
    {identified([detected_objects |-> o, scene_tags |-> {}, dialogue_keywords |-> {},
                 episode |-> <<>>], "scene_1", <<0, 450>>) :
        o \in SeqsUpTo(OverlayObjectVocab, MaxObjects)}

OverlayInit ==
    /\ scene \in OverlayScenes
    /\ product_key \in {"pizza", "coke", "laptop", "snacks"}
    /\ user = [dietary_preferences |-> {}, brand_affinities |-> EmptyDict,
               watch_time_context |-> w_weekend, engagement_signals |-> EmptyDict,
               location_zip |-> ""]
    /\ tc_in = NoTargeting
    /\ op = "idle"
    /\ targeting = NoTargeting
    /\ rationale = <<>>
    /\ RankIdle
    /\ FindIdle
    /\ MainIdle
    /\ PersonaIdle
    /\ svc_pc = "select_overlay"
    /\ overlay = NoOverlay
    /\ response = <<>>
    /\ ToolsIdle

\* a call of SeamlessAdService._select_overlay(scene, product_key)
SelectOverlay ==
    /\ svc_pc = "select_overlay"
    /\ svc_pc' = "overlay_selected"
    /\ overlay' = _select_overlay(scene, product_key)
    /\ UNCHANGED <<response, rec_vars, rank_vars, fk_vars, main_vars, persona_vars, tool_vars>>

OverlayNext == SelectOverlay

SpecOverlay == OverlayInit /\ [][OverlayNext]_vars

\* ------------------------------------------------- claims: _select_overlay
\* C15: the overlay is anchored to the first detected object whose lower-cased
\* label is in the label set of the product key; without such an object, to a
\* detected object of maximal confidence; without any detected object it is the
\* placeholder box [0.1,0.1,0.2,0.2] labelled "unknown".  The overlay always
\* carries the product key, and bbox and label come from one and the same object.
C15_OverlayAnchor ==
    svc_pc = "overlay_selected" =>
        LET objs == scene.detected_objects
            hits == {i \in DOMAIN objs : Lower(objs[i].label) \in label_map(product_key)}
            anchored(i) == /\ overlay.bbox = objs[i].bbox
                           /\ overlay.detected_label = objs[i].label
        IN  /\ overlay.selected_product_key = product_key
            /\ hits # {} =>
                   \E i \in hits : (\A j \in hits : i <= j) /\ anchored(i)
            /\ (hits = {} /\ objs # <<>>) =>
                   \E i \in DOMAIN objs :
                       /\ \A j \in DOMAIN objs : objs[j].confidence <= objs[i].confidence
                       /\ anchored(i)
            /\ objs = <<>> =>
                   /\ overlay.bbox = <<10, 10, 20, 20>>
                   /\ overlay.detected_label = w_unknown

\* a coke overlay anchored to the second object, a can of confidence 0.50,
\* although the first and the third object are more confident
C15_Witness ==
    /\ svc_pc = "overlay_selected"
    /\ product_key = "coke"
    /\ Len(scene.detected_objects) = 3
    /\ scene.detected_objects[1].label = w_friends
    /\ scene.detected_objects[2].confidence = 50
    /\ scene.detected_objects[3].label = w_Laptop
    /\ overlay.bbox = <<50, 50, 10, 10>>
    /\ overlay.detected_label = w_can

\* --------------------------------------------------- generate_ad_response
\* the requests served with an arbitrary catalog client
CatalogRequests ==
    {<<u, identified(sc, "scene_2", <<1200, 1500>>)>> :
        u \in {k \in KrogerUsers : k.dietary_preferences = {w_No_Beef}
                                   /\ k.brand_affinities # EmptyDict},
        sc \in {x \in Scenes : /\ x.dialogue_keywords = {}
                               /\ x.episode = <<>>
                               /\ x.scene_tags \in {{}, {w_dinner}, {w_drink}}
                               /\ Len(x.detected_objects) <= 1}}

\* the requests served with the mock client
MockRequests ==
    {<<u, identified(sc, "scene_1", <<0, 450>>)>> :
        u \in {k \in CueUsers : k.watch_time_context = w_weekend},
        sc \in {x \in Scenes : x.dialogue_keywords = {} /\ Cardinality(x.scene_tags) <= 1}}

ServiceInit ==
    /\ \/ /\ tool_client = "catalog"
          /\ \E r \in CatalogRequests : user = r[1] /\ scene = r[2]
       \/ /\ tool_client = "mock"
          /\ \E r \in MockRequests : user = r[1] /\ scene = r[2]
    /\ tc_in = NoTargeting
    /\ op = "idle"
    /\ targeting = NoTargeting
    /\ product_key = ""
    /\ rationale = <<>>
    /\ RankIdle
    /\ MainIdle
    /\ PersonaIdle
    /\ fk_pc = "idle"
    /\ fk_query = ""
    /\ fk_idx = 0
    /\ fk_calls = <<>>
    /\ fk_returns = <<>>
    /\ fk_raw = <<>>
    /\ fk_ranked = <<>>
    /\ fk_out = <<>>
    /\ svc_pc = "recommend"
    /\ overlay = NoOverlay
    /\ response = <<>>
    /\ ToolsIdle

\* line 23: self.recommender.recommend(user, scene)
GenRecommend ==
    /\ svc_pc = "recommend"
    /\ svc_pc' = "overlay"
    /\ op' = "recommend"
    /\ \E r \in {recommend(user, scene)} :
        /\ product_key' = r.product_key
        /\ rationale' = r.rationale
        /\ targeting' = r.targeting
    /\ UNCHANGED <<user, scene, tc_in, overlay, response>>
    /\ UNCHANGED <<rank_vars, fk_vars, main_vars, persona_vars, tool_vars>>

\* line 24: self._select_overlay(scene, product_key)
GenSelectOverlay ==
    /\ svc_pc = "overlay"
    /\ svc_pc' = "search"
    /\ overlay' = _select_overlay(scene, product_key)
    /\ UNCHANGED <<response, rec_vars, rank_vars, fk_vars, main_vars, persona_vars, tool_vars>>

\* lines 25-30 and kroger_search.py 291-294: find_kroger_products is entered
\* with the service's tool_client and builds its query
GenCallFind ==
    /\ svc_pc = "search"
    /\ fk_pc = "idle"
    /\ tool_client # "none"
    /\ fk_pc' = "primary"
    /\ fk_query' = _build_query(product_key, user)
    /\ UNCHANGED <<tool_client, fk_idx, fk_calls, fk_returns, fk_raw, fk_ranked, fk_out>>
    /\ UNCHANGED <<rec_vars, rank_vars, svc_vars, main_vars, persona_vars, tool_vars>>

\* lines 32-40: find_kroger_products returned, the response is assembled
GenAssemble ==
    /\ svc_pc = "search"
    /\ fk_pc = "done"
    /\ svc_pc' = "returned"
    /\ response' = <<ad_response(scene, overlay, user, targeting, fk_out, rationale)>>
    /\ UNCHANGED <<overlay, rec_vars, rank_vars, fk_vars, main_vars, persona_vars, tool_vars>>

\* lines 25-30: the exception of a search call leaves find_kroger_products and,
\* generate_ad_response having no handler, leaves it too: nothing is returned
GenFails ==
    /\ svc_pc = "search"
    /\ fk_pc = "raised"
    /\ svc_pc' = "failed"
    /\ UNCHANGED <<overlay, response, rec_vars, rank_vars, fk_vars, main_vars, persona_vars, tool_vars>>

\* kroger_search.py 291-294 for a service without tool_client:
\* get_kroger_client() gives a KrogerAPIClient
GenDefaultClient ==
    /\ svc_pc = "search"
    /\ fk_pc = "idle"
    /\ tool_client = "none"
    /\ tool_client' = "catalog"
    /\ fk_pc' = "primary"
    /\ fk_query' = _build_query(product_key, user)
    /\ UNCHANGED <<fk_idx, fk_calls, fk_returns, fk_raw, fk_ranked, fk_out>>
    /\ UNCHANGED <<rec_vars, rank_vars, svc_vars, main_vars, persona_vars, tool_vars>>

\* kroger_search.py 291, 242-247 and 114-117: get_kroger_client() raises (no
\* credentials, or the token request fails) and find_kroger_products with it
GenDefaultClientRaises ==
    /\ svc_pc = "search"
    /\ fk_pc = "idle"
    /\ tool_client = "none"
    /\ fk_pc' = "raised"
    /\ UNCHANGED <<tool_client, fk_query, fk_idx, fk_calls, fk_returns, fk_raw,
                   fk_ranked, fk_out>>
    /\ UNCHANGED <<rec_vars, rank_vars, svc_vars, main_vars, persona_vars, tool_vars>>

ServiceNext ==
    \/ GenRecommend
    \/ GenSelectOverlay
    \/ GenCallFind
    \/ FindPrimarySearch
    \/ FindFallbackSearch
    \/ FindPrimaryRaises
    \/ FindFallbackRaises
    \/ GenAssemble
    \/ GenFails

SpecService == ServiceInit /\ [][ServiceNext]_vars

\* ------------------------------------------- claims: generate_ad_response
\* some search call of the request raised
SearchFailed == \E k \in DOMAIN fk_returns : fk_returns[k] = -1

\* every search call issued so far returned zero results
AllEmpty == \A k \in DOMAIN fk_returns : fk_returns[k] = 0

\* C13: a search call that raises does not fail the request: the fallback
\* sequence goes on after it, and once every term has failed the response is
\* returned with an empty kroger_results list.
C13_SearchFailureRecovered ==
    SearchFailed =>
        /\ fk_pc \in {"fallback", "done"}
        /\ svc_pc \in {"search", "returned"}
        /\ (svc_pc = "returned" /\ \A k \in DOMAIN fk_returns : fk_returns[k] = -1) =>
               response[1].kroger_results = <<>>

\* what is left of a request: the statements of generate_ad_response still to
\* run, then the stages of find_kroger_products, then the search calls it may
\* still issue out of 7
WorkLeft ==
    100 * (CASE svc_pc = "recommend" -> 3 [] svc_pc = "overlay" -> 2
             [] svc_pc = "search" -> 1 [] OTHER -> 0)
    + 10 * (CASE fk_pc = "idle" -> 3 [] fk_pc = "primary" -> 2
              [] fk_pc = "fallback" -> 1 [] OTHER -> 0)
    + (7 - Len(fk_calls))

\* C14: at most 7 search calls are issued (1 primary + 6 fallback terms); when
\* all of them returned zero results the 7 calls were made,
\* find_kroger_products returned an empty list without raising and the
\* response carries an empty kroger_results.  Every step of a request uses up
\* some of a bounded amount of work, so the request ends.
C14_BoundedSearch ==
    /\ [](/\ Len(fk_calls) <= 7
          /\ (fk_pc = "done" /\ AllEmpty) => (Len(fk_calls) = 7 /\ fk_out = <<>>)
          /\ (Len(fk_calls) = 7 /\ AllEmpty) => fk_pc = "done"
          /\ (svc_pc = "returned" /\ AllEmpty) => response[1].kroger_results = <<>>)
    /\ [][WorkLeft' < WorkLeft /\ WorkLeft' >= 0]_vars

\* seven searches found nothing and the response came back without products
C14_Witness ==
    /\ svc_pc = "returned"
    /\ tool_client = "catalog"
    /\ fk_returns = <<0, 0, 0, 0, 0, 0, 0>>
    /\ response[1].kroger_results = <<>>
    /\ response[1].overlay.selected_product_key = product_key

\* C17: the recommender's product key is one of "pizza", "coke", "laptop"; a
\* returned response carries it as overlay.selected_product_key, the scene's
\* scene_id and timestamp_range, and the rationale and targeting context the
\* recommender returned for this user and scene.
C17_ResponseFields ==
    /\ op = "recommend" => product_key \in {"pizza", "coke", "laptop"}
    /\ svc_pc = "returned" =>
        /\ response[1].overlay.selected_product_key = product_key
        /\ response[1].scene_id = scene.scene_id
        /\ response[1].timestamp_range = scene.timestamp_range
        /\ response[1].rationale = rationale
        /\ response[1].targeting_context = targeting

\* a coke response whose overlay is anchored to the detected can
C17_Witness ==
    /\ svc_pc = "returned"
    /\ product_key = "coke"
    /\ response[1].overlay.selected_product_key = "coke"
    /\ response[1].overlay.detected_label = w_can
    /\ response[1].scene_id = "scene_2"
    /\ response[1].timestamp_range = <<1200, 1500>>
    /\ Len(response[1].rationale) >= 1
    /\ Len(response[1].kroger_results) = 3

\* ------------------------------------------------------ get_user_profile
\* get_user_profile(gp_key), lines 39-42
GetUserProfile ==
    /\ gp_result = "called"
    /\ \E key \in {normalized(gp_key)} :
        IF key \notin DOMAIN USER_PERSONAS
        THEN /\ gp_result' = "raised"
             /\ UNCHANGED <<heap, held>>
        ELSE /\ gp_result' = "returned"
             /\ heap' = model_copy_deep(heap, USER_PERSONAS[key])
             /\ held' = Append(held, next_ref(heap))
    /\ UNCHANGED <<USER_PERSONAS, gp_key>>
    /\ UNCHANGED <<rec_vars, rank_vars, fk_vars, svc_vars, main_vars, tool_vars>>

KeyAlphabet == {"a", "A", "b", "c", " ", "\n"}

LookupKeys == SeqsUpTo(KeyAlphabet, MaxKeyLen)

\* one get_user_profile call on the freshly imported module
LookupInit ==
    /\ RecIdle
    /\ RankIdle
    /\ FindIdle
    /\ SvcIdle
    /\ MainIdle
    /\ USER_PERSONAS = InitialRegistry
    /\ heap = InitialHeap
    /\ held = <<>>
    /\ gp_key \in LookupKeys
    /\ gp_result = "called"
    /\ ToolsIdle

LookupNext == GetUserProfile

SpecLookup == LookupInit /\ [][LookupNext]_vars

\* ------------------------------------------- callers of get_user_profile
PersonaCallKeys == {<<"a">>, <<" ", "B">>, <<"c">>}

\* the caller is between two calls: no pipeline run and no lookup is under way
CallerRuns == svc_pc \in {"idle", "returned"} /\ gp_result # "called"

\* a caller calls get_user_profile
CallGetUserProfile ==
    /\ CallerRuns
    /\ Len(held) < MaxHeld
    /\ gp_key' \in PersonaCallKeys
    /\ gp_result' = "called"
    /\ UNCHANGED <<USER_PERSONAS, heap, held>>
    /\ UNCHANGED <<rec_vars, rank_vars, fk_vars, svc_vars, main_vars, tool_vars>>

\* a caller assigns a field of a profile it was given: profile.household_size = 8
CallerSetsField ==
    /\ CallerRuns
    /\ \E i \in DOMAIN held :
        /\ heap[held[i]].household_size # MaxHouseholdSize
        /\ heap' = [heap EXCEPT ![held[i]].household_size = MaxHouseholdSize]
    /\ UNCHANGED <<USER_PERSONAS, held, gp_key, gp_result>>
    /\ UNCHANGED <<rec_vars, rank_vars, fk_vars, svc_vars, main_vars, tool_vars>>

\* a caller writes into a dict of a profile it was given:
\* profile.brand_affinities["Coca-Cola"] = 0.0
CallerUpdatesDict ==
    /\ CallerRuns
    /\ \E i \in DOMAIN held :
        \E d \in {heap[held[i]].brand_affinities} :
            /\ heap[d][w_Coca_Cola] # 0
            /\ heap' = [heap EXCEPT ![d] = [@ EXCEPT ![w_Coca_Cola] = 0]]
    /\ UNCHANGED <<USER_PERSONAS, held, gp_key, gp_result>>
    /\ UNCHANGED <<rec_vars, rank_vars, fk_vars, svc_vars, main_vars, tool_vars>>

SampleScene ==
    identified([detected_objects |-> <<>>, scene_tags |-> {w_drink},
                dialogue_keywords |-> {}, episode |-> <<>>], "scene_1", <<0, 450>>)

\* a caller hands a profile it was given to generate_ad_response of a service
\* built with the mock client
CallerRunsPipeline ==
    /\ svc_pc = "idle"
    /\ gp_result # "called"
    /\ \E i \in DOMAIN held : user' = as_user(heap, held[i])
    /\ scene' = SampleScene
    /\ svc_pc' = "recommend"
    /\ UNCHANGED <<tc_in, op, targeting, product_key, rationale, overlay, response>>
    /\ UNCHANGED <<rank_vars, fk_vars, main_vars, persona_vars, tool_vars>>

PersonaInit ==
    /\ RecIdle
    /\ RankIdle
    /\ FindIdle
    /\ SvcIdle
    /\ MainIdle
    /\ PersonaIdle
    /\ ToolsIdle

PersonaNext ==
    \/ CallGetUserProfile
    \/ GetUserProfile
    \/ CallerSetsField
    \/ CallerUpdatesDict
    \/ CallerRunsPipeline
    \/ GenRecommend
    \/ GenSelectOverlay
    \/ GenCallFind
    \/ FindPrimarySearch
    \/ GenAssemble

SpecPersona == PersonaInit /\ [][PersonaNext]_vars

\* ------------------------------------------------ claims: the persona registry
\* user_key is the letter `upper` or `lower` with nothing but whitespace around it
Names(user_key, upper, lower) ==
    \E i \in DOMAIN user_key :
        /\ user_key[i] \in {upper, lower}
        /\ \A j \in DOMAIN user_key \ {i} : user_key[j] \in {" ", "\n", "\t"}

\* the persona a key names, <<>> when it names none
PersonaNamed(user_key) ==
    IF Names(user_key, "A", "a") THEN <<PersonaA>>
    ELSE IF Names(user_key, "B", "b") THEN <<PersonaB>>
    ELSE <<>>

\* C19: get_user_profile raises for every key that, trimmed and upper-cased, is
\* no key of the registry, returning nothing in place of the persona; for a key
\* of the registry it returns that persona's data.
C19_UnknownKeyRaises ==
    gp_result \in {"raised", "returned"} =>
        IF PersonaNamed(gp_key) = <<>>
        THEN gp_result = "raised" /\ held = <<>> /\ heap = InitialHeap
        ELSE /\ gp_result = "returned"
             /\ Len(held) = 1
             /\ profile_at(heap, held[1]) = PersonaNamed(gp_key)[1]

\* the key "a b" holds the letters of two personas and is a key of none
C19_Witness ==
    /\ gp_key = <<"a", " ", "b">>
    /\ gp_result = "raised"
    /\ held = <<>>

\* the registry entries as they were at import
RegistryIntact ==
    /\ USER_PERSONAS = InitialRegistry
    /\ \A r \in DOMAIN InitialHeap : heap[r] = InitialHeap[r]
    /\ profile_at(heap, USER_PERSONAS[PersonaKeyA]) = PersonaA
    /\ profile_at(heap, USER_PERSONAS[PersonaKeyB]) = PersonaB

\* C20: whatever get_user_profile calls, pipeline runs and caller writes into
\* returned profiles have happened, the registry entries are as they were at
\* import, and a get_user_profile call returns the original persona values.
C20_RegistryReadOnly ==
    /\ []RegistryIntact
    /\ [][(gp_result = "called" /\ gp_result' = "returned") =>
             profile_at(heap', held'[Len(held')]) = PersonaNamed(gp_key)[1]]_vars

\* persona A was fetched, the caller overwrote its household size and its
\* Coca-Cola affinity and ran the pipeline on it; persona A fetched again has
\* the original values
C20_Witness ==
    /\ Len(held) = 2
    /\ gp_result = "returned"
    /\ svc_pc = "returned"
    /\ heap[held[1]].household_size = 8
    /\ heap[heap[held[1]].brand_affinities][w_Coca_Cola] = 0
    /\ response[1].user_profile.household_size = 8
    /\ profile_at(heap, held[2]) = PersonaA

\* ------------------------------------------------------------- cli.main
RawObjects ==
    {[label |-> w_can, confidence |-> c, bbox |-> b] :
        c \in {-1, 0, 100, 101},
        b \in {<<50, 50, 10>>, <<50, 50, 10, 10>>, <<50, 50, 10, 10, 10>>}}

\* the scene documents of a run
RawScenes ==
    {[scene_id |-> "scene_1", timestamp_range |-> ts, detected_objects |-> o,
      scene_tags |-> <<w_drink>>] :
        ts \in {<<0>>, <<0, 450>>, <<0, 450, 900>>},
        o \in SeqsUpTo(RawObjects, MaxRawObjects)}

\* the user documents of a run
RawUsers ==
    {[age_range |-> "25-34", household_size |-> n, location_zip |-> "94107",
      dietary_preferences |-> <<w_No_Beef>>,
      brand_affinities |-> (w_Coca_Cola :> 60),
      watch_time_context |-> w_weekend,
      engagement_signals |-> ("often_uses_deals" :> TRUE)] :
        n \in {0, 1, 8, 9}}

\* main() after parse_args: a user JSON path or --user-key (one of the registry
\* keys, by the parser's choices), and a scene JSON path
MainInit ==
    /\ user = NoUser
    /\ scene = NoScene
    /\ tc_in = NoTargeting
    /\ op = "idle"
    /\ targeting = NoTargeting
    /\ product_key = ""
    /\ rationale = <<>>
    /\ RankIdle
    /\ SvcIdle
    /\ tool_client = "none"
    /\ fk_pc = "idle"
    /\ fk_query = ""
    /\ fk_idx = 0
    /\ fk_calls = <<>>
    /\ fk_returns = <<>>
    /\ fk_raw = <<>>
    /\ fk_ranked = <<>>
    /\ fk_out = <<>>
    /\ USER_PERSONAS = InitialRegistry
    /\ heap = InitialHeap
    /\ held = <<>>
    /\ raw_scene \in RawScenes
    /\ \/ /\ main_pc = "user_key"
          /\ raw_user = NoRaw
          /\ gp_key \in DOMAIN InitialRegistry
          /\ gp_result = "called"
       \/ /\ main_pc = "user_json"
          /\ raw_user \in RawUsers
          /\ gp_key = <<>>
          /\ gp_result = "none"
    /\ ToolsIdle

\* line 29: get_user_profile(args.user_key) returned
MainLoadUserKey ==
    /\ main_pc = "user_key"
    /\ gp_result = "returned"
    /\ user' = as_user(heap, held[Len(held)])
    /\ main_pc' = "scene"
    /\ UNCHANGED <<scene, tc_in, op, targeting, product_key, rationale>>
    /\ UNCHANGED <<raw_user, raw_scene, rank_vars, fk_vars, svc_vars, persona_vars, tool_vars>>

\* line 31: UserProfile(**_load_json(args.user_json)); a ValidationError ends
\* the run
MainLoadUserJson ==
    /\ main_pc = "user_json"
    /\ IF UserProfile_ok(raw_user)
       THEN user' = UserProfile_of(raw_user) /\ main_pc' = "scene"
       ELSE main_pc' = "error" /\ UNCHANGED user
    /\ UNCHANGED <<scene, tc_in, op, targeting, product_key, rationale>>
    /\ UNCHANGED <<raw_user, raw_scene, rank_vars, fk_vars, svc_vars, persona_vars, tool_vars>>

\* lines 35-38: GetMetadata.from_file(args.scene_json), then the service is
\* built without a tool_client and generate_ad_response called; a
\* ValidationError ends the run
MainLoadScene ==
    /\ main_pc = "scene"
    /\ IF VideoMetadata_ok(raw_scene)
       THEN /\ scene' = VideoMetadata_of(raw_scene)
            /\ main_pc' = "service"
            /\ svc_pc' = "recommend"
       ELSE /\ main_pc' = "error"
            /\ UNCHANGED <<scene, svc_pc>>
    /\ UNCHANGED <<user, tc_in, op, targeting, product_key, rationale>>
    /\ UNCHANGED <<overlay, response, raw_user, raw_scene>>
    /\ UNCHANGED <<rank_vars, fk_vars, persona_vars, tool_vars>>

\* line 39: the response is printed
MainPrint ==
    /\ main_pc = "service"
    /\ svc_pc = "returned"
    /\ main_pc' = "printed"
    /\ UNCHANGED <<raw_user, raw_scene, rec_vars, rank_vars, fk_vars, svc_vars, persona_vars, tool_vars>>

\* line 38: generate_ad_response raised
MainFails ==
    /\ main_pc = "service"
    /\ svc_pc = "failed"
    /\ main_pc' = "error"
    /\ UNCHANGED <<raw_user, raw_scene, rec_vars, rank_vars, fk_vars, svc_vars, persona_vars, tool_vars>>

MainNext ==
    \/ GetUserProfile
    \/ MainLoadUserKey
    \/ MainLoadUserJson
    \/ MainLoadScene
    \/ GenRecommend
    \/ GenSelectOverlay
    \/ GenDefaultClient
    \/ GenDefaultClientRaises
    \/ FindPrimarySearch
    \/ FindFallbackSearch
    \/ FindPrimaryRaises
    \/ FindFallbackRaises
    \/ GenAssemble
    \/ GenFails
    \/ MainPrint
    \/ MainFails

SpecMain == MainInit /\ [][MainNext]_vars

\* ------------------------------------------------ claims: input validation
\* the user document breaks the household_size constraint
InvalidUser ==
    /\ "household_size" \in DOMAIN raw_user
    /\ (raw_user.household_size < 1 \/ raw_user.household_size > 8)

\* the scene document breaks the timestamp_range constraint, or one of its
\* detected objects the bbox or the confidence constraint
InvalidScene ==
    \/ Len(raw_scene.timestamp_range) # 2
    \/ \E i \in DOMAIN raw_scene.detected_objects :
        \/ Len(raw_scene.detected_objects[i].bbox) # 4
        \/ raw_scene.detected_objects[i].confidence < 0
        \/ raw_scene.detected_objects[i].confidence > 100

\* C18: a DetectedObject with a bbox of other than 4 elements or a confidence
\* outside [0,1], a scene with a timestamp_range of other than 2 elements and a
\* UserProfile with a household_size outside [1,8] are rejected with an error,
\* no object being constructed; no response is assembled from such an input.
C18_InvalidInputRejected ==
    /\ [](/\ InvalidUser => (user = NoUser /\ main_pc \in {"user_json", "error"})
          /\ InvalidScene =>
                (scene = NoScene
                 /\ main_pc \in {"user_json", "user_key", "scene", "error"})
          /\ (InvalidUser \/ InvalidScene) => (svc_pc = "idle" /\ response = <<>>)
          /\ response # <<>> =>
                /\ response[1].user_profile.household_size \in 1..8
                /\ Len(response[1].timestamp_range) = 2)
    /\ [][/\ (main_pc = "user_json" /\ InvalidUser) => main_pc' = "error"
          /\ (main_pc = "scene" /\ InvalidScene) => main_pc' = "error"]_vars

\* a valid user document was loaded, then the scene document was rejected for
\* a detected object with a bbox of five elements
C18_Witness ==
    /\ main_pc = "error"
    /\ user # NoUser
    /\ user.household_size = 8
    /\ Len(raw_scene.timestamp_range) = 2
    /\ Len(raw_scene.detected_objects) = 1
    /\ raw_scene.detected_objects[1].confidence = 100
    /\ Len(raw_scene.detected_objects[1].bbox) = 5
    /\ scene = NoScene
    /\ response = <<>>

\* ---------------------------------------------------------------- C21
\* the candidates of fk_ranked that became ProductResults
RankedTop == top_ranked(fk_ranked)

\* C21: every ProductResult returned by find_kroger_products has a non-empty
\* image_url (a str, never null); a candidate whose image_url is missing, null
\* or empty gets the generic placeholder URL, any other candidate keeps its own.
C21_ImageUrlNonEmpty ==
    fk_pc = "done" =>
        /\ Len(fk_out) = Len(RankedTop)
        /\ \A i \in DOMAIN fk_out :
            /\ fk_out[i].image_url \notin {"", None}
            /\ ("image_url" \notin DOMAIN RankedTop[i]
                    \/ RankedTop[i].image_url \in {"", None})
                 => fk_out[i].image_url = "https://images.kroger.com/product/generic-item.jpg"
            /\ ("image_url" \in DOMAIN RankedTop[i]
                    /\ RankedTop[i].image_url \notin {"", None})
                 => fk_out[i].image_url = RankedTop[i].image_url

\* three products came back, built from a candidate without the key, one with
\* a null and one with an empty image_url
C21_Witness ==
    /\ fk_pc = "done"
    /\ tool_client = "sparse"
    /\ Len(fk_out) = 3
    /\ \E i, j, k \in DOMAIN fk_out :
        /\ "image_url" \notin DOMAIN RankedTop[i]
        /\ "image_url" \in DOMAIN RankedTop[j] /\ RankedTop[j].image_url = None
        /\ "image_url" \in DOMAIN RankedTop[k] /\ RankedTop[k].image_url = ""
        /\ \A n \in {i, j, k} : fk_out[n].image_url = GenericImageUrl

\* ============================================================ shopping tools
\* ------------------------------------------ product_search.py (demo mode)
\* Money of the shopping tools is counted in thousandths of a dollar, so that
\* round(x, 2) has a digit to drop; every price of the code is a whole cent.
MaxAdds == 2
MaxCarts == 3

\* round(x, 2) for x >= 0: the nearest whole cent
round2(x) == ((x + 5) \div 10) * 10

\* lines 34-42
base_products ==
    <<[name |-> "Premium Edition", base_price |-> 149990],
      [name |-> "Standard", base_price |-> 79990],
      [name |-> "Budget Option", base_price |-> 29990],
      [name |-> "Professional Series", base_price |-> 299990],
      [name |-> "Compact Version", base_price |-> 59990],
      [name |-> "Deluxe Bundle", base_price |-> 199990],
      [name |-> "Essential Pack", base_price |-> 49990]>>

\* line 60: md5 of "{retailer_url}:{query} - {name}", cut to 12 hex digits; the
\* model keeps what the digest is computed from
mock_product_id(retailer_url, query, name) == <<retailer_url, query, name>>

\* `max_price and price > max_price` with max_price an Optional[float]: None
\* and 0 are both falsy
over_price(price, max_price) ==
    max_price # <<>> /\ max_price[1] # 0 /\ price > max_price[1]

\* lines 52-75: the products kept, in the order of base_products; i counts from 0
_generate_mock_products(retailer_url, query, max_price) ==
    LET product(i) ==
            [id |-> mock_product_id(retailer_url, query, base_products[i + 1].name),
             name |-> <<query, base_products[i + 1].name>>,
             price |-> base_products[i + 1].base_price,
             currency |-> "USD",
             in_stock |-> (i % 4 # 0)]
        all == [k \in DOMAIN base_products |-> product(k - 1)]
        kept(p) == ~over_price(p.price, max_price)
    IN  SelectSeq(all, kept)

\* line 73: every product returned is put in the cache under its id
cache_after(cache, products) ==
    [k \in DOMAIN cache \cup {products[i].id : i \in DOMAIN products} |->
        IF \E i \in DOMAIN products : products[i].id = k
        THEN (CHOOSE p \in {products[i] : i \in DOMAIN products} : p.id = k)
        ELSE cache[k]]

\* lines 27-29
get_cached_product(cache, product_id) ==
    IF product_id \in DOMAIN cache THEN <<cache[product_id]>> ELSE <<>>

\* ------------------------------------------------------- cart_management.py
PlaceholderPrice == 99990

\* lines 182-189, 207-214 (and 20-27): an empty cart under a newly drawn uuid4;
\* the n-th value drawn is modelled by n, so no two draws are equal
new_cart(n) == [id |-> n, items |-> <<>>, total |-> 0, item_count |-> 0]

RECURSIVE SumOf(_, _)
SumOf(items, field) ==
    IF items = <<>> THEN 0
    ELSE Head(items)[field] + SumOf(Tail(items), field)

\* the totals left as they were
_recalculate_cart_stale(cart) == cart

\* lines 30-37
_recalculate_cart(cart) ==
    [cart EXCEPT !.total = round2(SumOf(cart.items, "subtotal")),
                 !.item_count = SumOf(cart.items, "quantity")]

\* lines 72-80
product_or_placeholder(cache, product_id) ==
    IF get_cached_product(cache, product_id) # <<>>
    THEN get_cached_product(cache, product_id)[1]
    ELSE [id |-> product_id, name |-> <<"Product", product_id>>,
          price |-> PlaceholderPrice, currency |-> "USD"]

\* lines 83-87: the index of the first line of the product, 0 when there is none
existing_item(items, product_id) ==
    IF \E i \in DOMAIN items : items[i].product_id = product_id
    THEN CHOOSE i \in DOMAIN items :
            /\ items[i].product_id = product_id
            /\ \A j \in DOMAIN items : items[j].product_id = product_id => i <= j
    ELSE 0

\* lines 96-102
new_item(product, product_id, quantity) ==
    [product_id |-> product_id, name |-> product.name, price |-> product.price,
     quantity |-> quantity, subtotal |-> round2(product.price * quantity)]

\* every add appended as a line of its own
items_after_add_appended(items, product, product_id, quantity) ==
    Append(items, new_item(product, product_id, quantity))

\* lines 89-104
items_after_add(items, product, product_id, quantity) ==
    LET k == existing_item(items, product_id)
    IN  IF k # 0
        THEN [items EXCEPT ![k] =
                [@ EXCEPT !.quantity = items[k].quantity + quantity,
                          !.subtotal = round2(items[k].price * (items[k].quantity + quantity))]]
        ELSE Append(items, new_item(product, product_id, quantity))

\* any quantity accepted
quantity_ok_any(quantity) == TRUE

\* line 58
quantity_ok(quantity) == quantity >= 1

\* the summary every add_to_cart and clear_cart answer carries
cart_summary(cart) == [id |-> cart.id, item_count |-> cart.item_count, total |-> cart.total]

\* the cart left as it was by a completed checkout
cart_after_checkout_kept(cart, n) == cart

\* lines 182-189
cart_after_checkout(cart, n) == new_cart(n)

\* the ids an add_to_cart call is made with: a product of the demo search and
\* one no search returns
CartProductIds ==
    {mock_product_id("https://example-shop.com", "laptop", "Standard"),
     mock_product_id("https://example-shop.com", "laptop", "Unlisted")}

\* the quantities an add_to_cart call is made with
Quantities == {-1, 0, 1, 2}

\* the max_price arguments of a search: None, zero, and the price of one of
\* the products
MaxPrices == {<<>>, <<0>>, <<79990>>}

\* search_products(retailer_url, query, max_price) with DEMO_MODE unset or "true"
SearchProducts ==
    /\ \E max_price \in MaxPrices :
       \E products \in {_generate_mock_products("https://example-shop.com", "laptop", max_price)} :
        /\ cart_call' = [op |-> "search_products", max_price |-> max_price]
        /\ cart_ret' = [op |-> "search_products", products |-> products]
        /\ _product_cache' = cache_after(_product_cache, products)
    /\ UNCHANGED <<_cart, uuids, cart_log, orders>>
    /\ UNCHANGED <<rec_vars, rank_vars, fk_vars, svc_vars, main_vars, persona_vars,
                   disc_vars, srv_vars>>

\* add_to_cart(product_id, quantity)
AddToCart ==
    /\ \E product_id \in CartProductIds, quantity \in Quantities :
        /\ cart_call' = [op |-> "add_to_cart", product_id |-> product_id,
                         quantity |-> quantity]
        /\ IF ~quantity_ok(quantity)
           THEN /\ cart_ret' = [op |-> "add_to_cart", success |-> FALSE,
                                cart |-> cart_summary(_cart)]
                /\ UNCHANGED <<_cart, cart_log>>
           ELSE /\ Len(cart_log) < MaxAdds
                /\ \E product \in {product_or_placeholder(_product_cache, product_id)} :
                   \E cart \in {_recalculate_cart(
                                   [_cart EXCEPT !.items =
                                       items_after_add(_cart.items, product, product_id, quantity)])} :
                    /\ _cart' = cart
                    /\ cart_ret' = [op |-> "add_to_cart", success |-> TRUE,
                                    cart |-> cart_summary(cart)]
                /\ cart_log' = Append(cart_log, [product_id |-> product_id,
                                                 quantity |-> quantity])
    /\ UNCHANGED <<_product_cache, uuids, orders>>
    /\ UNCHANGED <<rec_vars, rank_vars, fk_vars, svc_vars, main_vars, persona_vars,
                   disc_vars, srv_vars>>

\* view_cart()
ViewCart ==
    /\ cart_call' = [op |-> "view_cart"]
    /\ cart_ret' = [op |-> "view_cart", cart |-> _cart]
    /\ UNCHANGED <<_cart, _product_cache, uuids, cart_log, orders>>
    /\ UNCHANGED <<rec_vars, rank_vars, fk_vars, svc_vars, main_vars, persona_vars,
                   disc_vars, srv_vars>>

\* mock_checkout(cart_id): cart_id is one of the ids drawn so far, or 0, an id
\* no cart ever had; order_id is <<>> for None
MockCheckout ==
    /\ \E cart_id \in 0..uuids :
        /\ cart_call' = [op |-> "mock_checkout", cart_id |-> cart_id]
        /\ IF cart_id # _cart.id
           THEN /\ cart_ret' = [op |-> "mock_checkout", order_id |-> <<>>,
                                cart_id |-> cart_id, status |-> "error", total |-> 0,
                                items |-> <<>>, message |-> "not found"]
                /\ UNCHANGED <<_cart, uuids, cart_log, orders>>
           ELSE IF _cart.items = <<>>
           THEN /\ cart_ret' = [op |-> "mock_checkout", order_id |-> <<>>,
                                cart_id |-> cart_id, status |-> "error", total |-> 0,
                                items |-> <<>>, message |-> "empty"]
                /\ UNCHANGED <<_cart, uuids, cart_log, orders>>
           ELSE /\ uuids < MaxCarts
                /\ cart_ret' = [op |-> "mock_checkout", order_id |-> <<uuids>>,
                                cart_id |-> cart_id, status |-> "completed",
                                total |-> _cart.total, items |-> _cart.items,
                                message |-> "placed"]
                /\ _cart' = cart_after_checkout(_cart, uuids + 1)
                /\ uuids' = uuids + 1
                /\ cart_log' = <<>>
                /\ orders' = orders \cup {cart_id}
    /\ UNCHANGED _product_cache
    /\ UNCHANGED <<rec_vars, rank_vars, fk_vars, svc_vars, main_vars, persona_vars,
                   disc_vars, srv_vars>>

\* clear_cart()
ClearCart ==
    /\ uuids < MaxCarts
    /\ cart_call' = [op |-> "clear_cart"]
    /\ _cart' = new_cart(uuids + 1)
    /\ uuids' = uuids + 1
    /\ cart_ret' = [op |-> "clear_cart", success |-> TRUE,
                    cart |-> [id |-> uuids + 1, item_count |-> 0, total |-> 0]]
    /\ cart_log' = <<>>
    /\ UNCHANGED <<_product_cache, orders>>
    /\ UNCHANGED <<rec_vars, rank_vars, fk_vars, svc_vars, main_vars, persona_vars,
                   disc_vars, srv_vars>>

CartInit ==
    /\ RecIdle
    /\ RankIdle
    /\ FindIdle
    /\ OthersIdle

CartNext ==
    \/ SearchProducts
    \/ AddToCart
    \/ ViewCart
    \/ MockCheckout
    \/ ClearCart

SpecCart == CartInit /\ [][CartNext]_vars

\* ------------------------------------------------------ claims: the cart
\* the quantities of the add_to_cart calls of `log` made for `product_id`, summed
RECURSIVE AddedSince(_, _)
AddedSince(log, product_id) ==
    IF log = <<>> THEN 0
    ELSE (IF Head(log).product_id = product_id THEN Head(log).quantity ELSE 0)
            + AddedSince(Tail(log), product_id)

\* the step is a successful add_to_cart call
AddSucceeds ==
    /\ cart_call'.op = "add_to_cart"
    /\ cart_ret'.success

\* C22: the cart never holds two lines of one product_id; the quantity of a
\* line is the sum of the quantities of the successful add_to_cart calls for
\* its product since the cart was last reset (by mock_checkout or clear_cart),
\* and every product added since then has a line. A successful add of a
\* product that has a line adds no line: it raises the quantity of that line
\* by the quantity added and leaves the other lines as they were.
C22_OneLinePerProduct ==
    /\ [](/\ \A i, j \in DOMAIN _cart.items :
                _cart.items[i].product_id = _cart.items[j].product_id => i = j
          /\ \A i \in DOMAIN _cart.items :
                _cart.items[i].quantity = AddedSince(cart_log, _cart.items[i].product_id)
          /\ \A n \in DOMAIN cart_log :
                \E i \in DOMAIN _cart.items :
                    _cart.items[i].product_id = cart_log[n].product_id)
    /\ [][(AddSucceeds /\ \E k \in DOMAIN _cart.items :
                            _cart.items[k].product_id = cart_call'.product_id) =>
            /\ Len(_cart'.items) = Len(_cart.items)
            /\ \A k \in DOMAIN _cart.items :
                IF _cart.items[k].product_id = cart_call'.product_id
                THEN _cart'.items[k].quantity
                        = _cart.items[k].quantity + cart_call'.quantity
                ELSE _cart'.items[k] = _cart.items[k]]_vars

\* after a reset, one product was added with quantity 1 and again with quantity
\* 2: the cart holds one line of quantity 3
C22_Witness ==
    /\ uuids > 1
    /\ Len(cart_log) = 2
    /\ cart_log[1].product_id = cart_log[2].product_id
    /\ cart_log[1].quantity = 1 /\ cart_log[2].quantity = 2
    /\ Len(_cart.items) = 1
    /\ _cart.items[1].quantity = 3
    /\ cart_call.op = "add_to_cart"

\* the step is a mock_checkout call made with the id of the cart, which holds
\* at least one line
CheckoutOfCurrent ==
    /\ cart_call'.op = "mock_checkout"
    /\ cart_call'.cart_id = _cart.id
    /\ _cart.items # <<>>

\* what a mock_checkout step does
CheckoutStep ==
    /\ CheckoutOfCurrent =>
        /\ cart_ret'.status = "completed"
        /\ cart_ret'.cart_id = _cart.id
        /\ cart_ret'.total = _cart.total
        /\ cart_ret'.items = _cart.items
        /\ cart_ret'.order_id # <<>>
        /\ _cart'.items = <<>>
        /\ _cart'.item_count = 0
        /\ _cart'.total = 0
        /\ _cart'.id \notin 0..uuids
    /\ (cart_call'.op = "mock_checkout" /\ cart_call'.cart_id \in orders) =>
        /\ cart_ret'.status = "error"
        /\ cart_ret'.order_id = <<>>
        /\ orders' = orders

\* C23: mock_checkout with the current cart id on a non-empty cart answers
\* "completed" with the total and the items the cart held before the call, and
\* leaves an empty cart (no items, item_count 0, total 0) under an id no cart
\* had before; a mock_checkout with the id of a cart that was checked out
\* answers "error", and the current cart is never one that was checked out.
C23_CheckoutOnce ==
    /\ [](_cart.id \notin orders)
    /\ [][CheckoutStep]_vars

\* a cart was checked out, and a later mock_checkout with its id was answered
\* with "error" while the cart in place is empty under another id
C23_Witness ==
    /\ cart_call.op = "mock_checkout"
    /\ cart_call.cart_id \in orders
    /\ cart_ret.status = "error"
    /\ _cart.id # cart_call.cart_id
    /\ _cart.items = <<>>
    /\ _cart.total = 0
    /\ _cart.item_count = 0

\* the step is a shopping-tool call that reports failure
ReportsFailure ==
    \/ cart_call'.op = "add_to_cart" /\ ~cart_ret'.success
    \/ cart_call'.op = "clear_cart" /\ ~cart_ret'.success
    \/ cart_call'.op = "mock_checkout" /\ cart_ret'.status = "error"

\* what a failing call does
FailureStep ==
    /\ (cart_call'.op = "add_to_cart" /\ cart_call'.quantity < 1) =>
        /\ cart_ret'.success = FALSE
        /\ cart_ret'.cart = cart_summary(_cart)
    /\ (cart_call'.op = "mock_checkout"
            /\ (cart_call'.cart_id # _cart.id \/ _cart.items = <<>>)) =>
        /\ cart_ret'.status = "error"
        /\ cart_ret'.order_id = <<>>
    /\ ReportsFailure =>
        /\ _cart' = _cart
        /\ cart_log' = cart_log
        /\ orders' = orders

\* C24: add_to_cart with quantity < 1 answers success=false; mock_checkout with
\* an id other than the cart's, or on an empty cart, answers status "error"
\* with order_id null; every call that reports failure leaves the cart (id,
\* items, item_count, total) as it was before the call.
C24_FailureLeavesCart ==
    [][FailureStep]_vars

\* add_to_cart with quantity 0 was refused on a cart that holds a line, and the
\* answer carries the totals of the untouched cart
C24_Witness ==
    /\ cart_call.op = "add_to_cart"
    /\ cart_call.quantity = 0
    /\ cart_ret.success = FALSE
    /\ _cart.items # <<>>
    /\ cart_ret.cart.item_count = _cart.item_count
    /\ cart_ret.cart.total = _cart.total
    /\ _cart.item_count = AddedSince(cart_log, _cart.items[1].product_id)

\* C29: every line's subtotal is its price times its quantity and its quantity
\* is at least 1; the cart's total is the sum of the subtotals and item_count
\* the sum of the quantities; an empty cart has total 0 and item_count 0.
C29_CartTotals ==
    /\ \A i \in DOMAIN _cart.items :
        /\ _cart.items[i].subtotal = _cart.items[i].price * _cart.items[i].quantity
        /\ _cart.items[i].quantity >= 1
    /\ _cart.total = SumOf(_cart.items, "subtotal")
    /\ _cart.item_count = SumOf(_cart.items, "quantity")
    /\ _cart.items = <<>> => (_cart.total = 0 /\ _cart.item_count = 0)

\* after a reset the cart holds two units of a product found by a search at
\* 79.99 and one unit of a product priced by the placeholder at 99.99
C29_Witness ==
    /\ uuids > 1
    /\ Len(_cart.items) = 2
    /\ _cart.items[1].price = 79990 /\ _cart.items[1].quantity = 2
    /\ _cart.items[1].subtotal = 159980
    /\ _cart.items[2].price = PlaceholderPrice /\ _cart.items[2].quantity = 1
    /\ _cart.total = 259970
    /\ _cart.item_count = 3

\* ------------------------------------------------ claims: search_products
\* C25: a demo-mode search with max_price given (not None) returns only
\* products with price <= max_price; with max_price None it returns every mock
\* product.
C25_PriceFilter ==
    cart_call.op = "search_products" =>
        /\ cart_call.max_price # <<>> =>
                \A i \in DOMAIN cart_ret.products :
                    cart_ret.products[i].price <= cart_call.max_price[1]
        /\ cart_call.max_price = <<>> =>
                Len(cart_ret.products) = Len(base_products)

\* ===================================================== discover_product.py
\* the largest max_results a call is made with, and the most products the
\* Kroger API is taken to answer with
MaxLimit == 22
MaxApiResults == 2

\* line 172: the most a call may ask for
ResultsCap == 20

\* lines 137-143, prices in thousandths of a dollar
variants ==
    <<[suffix |-> "Organic", price |-> 5990],
      [suffix |-> "Store Brand", price |-> 3490],
      [suffix |-> "Premium", price |-> 8990],
      [suffix |-> "Family Size", price |-> 7490],
      [suffix |-> "Single Serve", price |-> 2990]>>

\* s[:n] of Python: the first n elements, counted from the end when n < 0
py_prefix(s, n) ==
    LET stop == IF n >= Len(s) THEN Len(s)
                ELSE IF n >= 0 THEN n
                ELSE IF Len(s) + n >= 0 THEN Len(s) + n
                ELSE 0
    IN  SubSeq(s, 1, stop)

\* query.replace(' ', '_')[:12]
SlugLen == 12

slug(query) ==
    [i \in DOMAIN py_prefix(query, SlugLen) |-> IF query[i] = " " THEN "_" ELSE query[i]]

\* lines 134-153
_mock_results(query, max_results) ==
    LET kept == py_prefix(variants, max_results)
    IN  [i \in DOMAIN kept |->
            [product_id |-> <<"mock", slug(query), i>>,
             name |-> <<Title(query), kept[i].suffix>>,
             price |-> kept[i].price,
             sold_by |-> "each",
             size |-> "1 unit",
             image_url |-> GenericImageUrl]]

\* max_results capped from above only
clamp_results_upper(max_results) ==
    IF max_results < ResultsCap THEN max_results ELSE ResultsCap

\* line 172: min(max(1, max_results), 20)
clamp_results(max_results) ==
    LET lower == IF max_results > 1 THEN max_results ELSE 1
    IN  IF lower < ResultsCap THEN lower ELSE ResultsCap

\* what _KrogerClient.search answers with when it does not raise: `count`
\* normalized products
kroger_products(count) ==
    [i \in 1..count |->
        [product_id |-> <<"kroger", <<>>, i>>,
         name |-> <<w_Coca_Cola, "each">>,
         price |-> 1990,
         sold_by |-> "each",
         size |-> "N/A",
         image_url |-> None]]

\* lines 156-186: credentials tells whether KROGER_CLIENT_ID and
\* KROGER_CLIENT_SECRET are both set; kroger is -1 when the API call (or the
\* token request) raises, else the number of products the API answers with
discover_product(query, max_results, credentials, kroger) ==
    LET limit == clamp_results(max_results)
    IN  IF ~credentials THEN _mock_results(query, limit)
        ELSE IF kroger = -1 THEN _mock_results(query, limit)
        ELSE kroger_products(kroger)

DiscoverQueries == {QueryChars["frozen pizza"], QueryChars["cola soda"]}

DiscoverProduct ==
    /\ \E query \in DiscoverQueries, max_results \in (-2)..MaxLimit,
          credentials \in BOOLEAN, kroger \in (-1)..MaxApiResults :
        /\ (~credentials => kroger = -1)
        /\ disc_call' = [op |-> "discover_product", query |-> query,
                         max_results |-> max_results, credentials |-> credentials,
                         kroger |-> kroger]
        /\ disc_ret' = discover_product(query, max_results, credentials, kroger)
    /\ UNCHANGED <<rec_vars, rank_vars, fk_vars, svc_vars, main_vars, persona_vars,
                   cart_vars, srv_vars>>

DiscoverInit ==
    /\ RecIdle
    /\ RankIdle
    /\ FindIdle
    /\ OthersIdle

DiscoverNext == DiscoverProduct

SpecDiscover == DiscoverInit /\ [][DiscoverNext]_vars

\* ----------------------------------------------- claims: discover_product
\* the call ran in mock mode: no credentials, or the Kroger call raised
MockMode == disc_call.op = "discover_product" /\ disc_call.kroger = -1

\* C26 as stated: in mock mode the list holds at least one product and at most
\* max_results products, never more than 20, for every integer max_results.
C26_AtMostMaxResults ==
    MockMode =>
        /\ Len(disc_ret) >= 1
        /\ Len(disc_ret) <= disc_call.max_results
        /\ Len(disc_ret) <= 20

\* C26: in mock mode the list holds at least one product and at most
\* max(1, max_results) products, never more than 20 (nor than the five mock
\* variants), and it is the mock list of the clamped limit also when the
\* Kroger call raised.
C26_AtMostClampedResults ==
    MockMode =>
        /\ Len(disc_ret) >= 1
        /\ Len(disc_ret) <= (IF disc_call.max_results > 1 THEN disc_call.max_results ELSE 1)
        /\ Len(disc_ret) <= 20
        /\ Len(disc_ret) <= Len(variants)
        /\ \A i \in DOMAIN disc_ret :
            /\ disc_ret[i].product_id[1] = "mock"
            /\ disc_ret[i].product_id[3] = i
            /\ disc_ret[i].price = variants[i].price

\* credentials are set, the Kroger call raised, and a call with max_results 0
\* was answered with one mock product
C26_Witness ==
    /\ disc_call.op = "discover_product"
    /\ disc_call.credentials
    /\ disc_call.kroger = -1
    /\ disc_call.max_results = 0
    /\ Len(disc_ret) = 1
    /\ disc_ret[1].product_id[1] = "mock"

\* ============================================================== server.py
\* the number of POST /api/discover requests of a run of the server
MaxPosts == 4

\* the membership test left out
is_active_never(runs, content_id) == FALSE

\* line 41
is_active(runs, content_id) == content_id \in runs

\* the discard made only after a normal return
runs_after_task_no_finally(runs, content_id, outcome) ==
    IF outcome = "raised" THEN runs ELSE runs \ {content_id}

\* lines 33-37: the finally clause discards the id however run_discovery ended
runs_after_task(runs, content_id, outcome) == runs \ {content_id}

\* lines 39-46: the handler has no await, so it runs in one piece on the event
\* loop
Discover(content_id) ==
    /\ posts < MaxPosts
    /\ posts' = posts + 1
    /\ IF is_active(_active_runs, content_id)
       THEN /\ http_ret' = [status |-> "already_running", content_id |-> content_id]
            /\ UNCHANGED <<_active_runs, bg_scheduled>>
       ELSE /\ _active_runs' = _active_runs \cup {content_id}
            /\ bg_scheduled' = [bg_scheduled EXCEPT ![content_id] = @ + 1]
            /\ http_ret' = [status |-> "started", content_id |-> content_id]
    /\ UNCHANGED <<bg_running, bg_last>>
    /\ UNCHANGED <<rec_vars, rank_vars, fk_vars, svc_vars, main_vars, persona_vars,
                   cart_vars, disc_vars>>

\* lines 33-35: a scheduled task starts and waits inside run_discovery
TaskStart(content_id) ==
    /\ bg_scheduled[content_id] > 0
    /\ bg_scheduled' = [bg_scheduled EXCEPT ![content_id] = @ - 1]
    /\ bg_running' = [bg_running EXCEPT ![content_id] = @ + 1]
    /\ UNCHANGED <<_active_runs, bg_last, http_ret, posts>>
    /\ UNCHANGED <<rec_vars, rank_vars, fk_vars, svc_vars, main_vars, persona_vars,
                   cart_vars, disc_vars>>

\* lines 35-37: run_discovery is over, with `outcome` "returned" or "raised"
TaskEnd(content_id, outcome) ==
    /\ bg_running[content_id] > 0
    /\ bg_running' = [bg_running EXCEPT ![content_id] = @ - 1]
    /\ _active_runs' = runs_after_task(_active_runs, content_id, outcome)
    /\ bg_last' = [outcome |-> outcome, content_id |-> content_id]
    /\ UNCHANGED <<bg_scheduled, http_ret, posts>>
    /\ UNCHANGED <<rec_vars, rank_vars, fk_vars, svc_vars, main_vars, persona_vars,
                   cart_vars, disc_vars>>

TaskReturns == \E content_id \in ContentIds : TaskEnd(content_id, "returned")

TaskRaises == \E content_id \in ContentIds : TaskEnd(content_id, "raised")

\* lines 50-52
Health ==
    /\ http_ret' = [status |-> "ok"]
    /\ UNCHANGED <<_active_runs, bg_scheduled, bg_running, bg_last, posts>>
    /\ UNCHANGED <<rec_vars, rank_vars, fk_vars, svc_vars, main_vars, persona_vars,
                   cart_vars, disc_vars>>

ServerInit ==
    /\ RecIdle
    /\ RankIdle
    /\ FindIdle
    /\ OthersIdle

ServerNext ==
    \/ \E content_id \in ContentIds : Discover(content_id)
    \/ \E content_id \in ContentIds : TaskStart(content_id)
    \/ TaskReturns
    \/ TaskRaises
    \/ Health

SpecServer == ServerInit /\ [][ServerNext]_vars

\* every scheduled task is started in the end, and every run_discovery ends
SpecServerLive ==
    /\ SpecServer
    /\ \A content_id \in ContentIds :
        /\ WF_vars(TaskStart(content_id))
        /\ WF_vars(TaskEnd(content_id, "returned") \/ TaskEnd(content_id, "raised"))

\* ------------------------------------------------------ claims: the server
\* the discovery runs of a content id that are scheduled or executing
RunsOf(content_id) == bg_scheduled[content_id] + bg_running[content_id]

\* what a step that handles a POST /api/discover does
DiscoverStep ==
    posts' = posts + 1 =>
        LET c == http_ret'.content_id
        IN  IF RunsOf(c) > 0
            THEN /\ http_ret'.status = "already_running"
                 /\ bg_scheduled' = bg_scheduled
                 /\ bg_running' = bg_running
            ELSE /\ http_ret'.status = "started"
                 /\ bg_scheduled' = [bg_scheduled EXCEPT ![c] = 1]
                 /\ bg_running' = bg_running

\* C27: at any time at most one discovery run per content_id is scheduled or
\* executing, and a content_id is in the active set exactly while it has one;
\* a request for a content_id with a run answers "already_running" and
\* schedules nothing, a request for one without answers "started" and
\* schedules exactly one task.
C27_OneRunPerContent ==
    /\ [](\A c \in ContentIds :
            /\ RunsOf(c) <= 1
            /\ c \in _active_runs <=> RunsOf(c) = 1)
    /\ [][DiscoverStep]_vars

\* a run for c1 is executing and one for c2 is scheduled when another request
\* for c1 is answered "already_running"
C27_Witness ==
    /\ bg_running["c1"] = 1
    /\ bg_scheduled["c2"] = 1
    /\ http_ret = [status |-> "already_running", content_id |-> "c1"]
    /\ _active_runs = {"c1", "c2"}
    /\ posts = 3

\* what a step that ends a background task, or handles a request, does to the
\* active set
ReleaseStep ==
    /\ \A c \in ContentIds :
        bg_running'[c] < bg_running[c] =>
            /\ c \notin _active_runs'
            /\ bg_last'.content_id = c
            /\ bg_last'.outcome \in {"returned", "raised"}
    /\ (posts' = posts + 1 /\ http_ret'.content_id \notin _active_runs) =>
        http_ret'.status = "started"

\* C28: when the background run of a content_id ends, by a normal return or by
\* an exception, the content_id leaves the active set; with every scheduled
\* task started and every run ended in the end, a content_id in the active set
\* leaves it in the end, and a request for a content_id outside the set is
\* answered "started".
C28_RunReleased ==
    /\ [][ReleaseStep]_vars
    /\ \A c \in ContentIds : (c \in _active_runs) ~> (c \notin _active_runs)

\* the run for c1 raised, and the next request for c1 was answered "started"
\* and has its task scheduled
C28_Witness ==
    /\ bg_last = [outcome |-> "raised", content_id |-> "c1"]
    /\ http_ret = [status |-> "started", content_id |-> "c1"]
    /\ posts = 2
    /\ bg_scheduled["c1"] = 1
    /\ _active_runs = {"c1"}

\* ------------------------------------- claims: recommend() and its context
\* the rationale returned holds `line`
InRationale(line) == \E i \in DOMAIN rationale : rationale[i] = line

\* the first rationale line of the six rules that come before the
\* brand-affinity rule
EarlierRuleLines ==
    {"Episode metadata shows prominent pizza presence",
     "Episode metadata shows prominent beverage presence",
     "Scene contains food/hangout cues aligned with pizza",
     "Episode/scene suggests tech/work context",
     "Episode/scene suggests a group hangout vibe (pizza-friendly)",
     "Scene contains beverage cues"}

\* C30: recommend(user, scene) never returns through the brand-affinity rule
\* nor through the fallback's beverage branch: whenever the context it built
\* has target_category "beverage", or beverage/soda/cola is among the terms,
\* one of the six earlier rules returned; "coke" comes only from the
\* prominent-beverage rule or the beverage-cue rule, and the fallback returns
\* "pizza" (target_category "frozen") or "laptop".
C30_AffinityRuleUnreachable ==
    op = "recommend" =>
        /\ ~InRationale("No strong visual cues; fell back to top brand affinity (Coca-Cola)")
        /\ ~InRationale("Targeting favors beverage category")
        /\ (targeting.target_category = "beverage"
                \/ ({w_beverage, w_soda, w_cola} \cap all_terms_of(scene)) # {}) =>
            rationale[1] \in EarlierRuleLines
        /\ product_key = "coke" =>
            rationale[1] \in {"Episode metadata shows prominent beverage presence",
                              "Scene contains beverage cues"}
        /\ rationale[1] = "Defaulted to universal placement" =>
            /\ product_key \in {"pizza", "laptop"}
            /\ product_key = "pizza" <=> targeting.target_category = "frozen"

\* a user with Coca-Cola affinity 0.6 and a scene whose only cue is the tag
\* "drink": the context built has target_category "beverage", and "coke" is
\* returned by the beverage-cue rule
C30_Witness ==
    /\ op = "recommend"
    /\ targeting.target_category = "beverage"
    /\ coke_affinity_of(user) >= 60
    /\ scene.scene_tags = {w_drink}
    /\ scene.detected_objects = <<>>
    /\ scene.dialogue_keywords = {}
    /\ scene.episode = <<>>
    /\ product_key = "coke"
    /\ rationale = <<"Scene contains beverage cues", "High Coca-Cola brand affinity">>
====
